---- MODULE Spec2Model ----
(***************************************************************************)
(* A model of the go-lsp code generator (internal/generate) and of the     *)
(* server dispatch code it emits.                                          *)
(*                                                                         *)
(* Go strings are TLA+ strings; the string functions of the Go standard    *)
(* library the generator calls are computed character by character.        *)
(* A nil pointer is a distinguished value (NilType, NilLit).               *)
(* Documentation strings are left out: no operation branches on them.      *)
(***************************************************************************)
EXTENDS Integers, Sequences, FiniteSets, TLC

VARIABLES
    g,        \* the Generator: Model, indices, namedLiterals, literalCounter
    pc,       \* position of the current Generate call
    runs,     \* number of Generate calls started on g
    types,    \* out.Types of the current Generate call
    server,   \* out.Server
    client,   \* out.Client
    rTyp,     \* resolver harness: the Type handed to resolveGoType
    rOut,     \* resolver harness: the string it returned
    dsp,      \* the emitted serverDispatch (its switch cases)
    msg,      \* dispatch: the incoming message
    dpc,      \* dispatch: position in serverDispatch
    frame,    \* dispatch: the locals of serverDispatch (arm, params, result, err)
    replies,  \* dispatch: invocations of the reply callback, in order
    calls     \* dispatch: invocations of Server interface methods, in order

vars == <<g, pc, runs, types, server, client, rTyp, rOut, dsp, msg, dpc, frame, replies, calls>>

genVars == <<g, pc, runs, types, server, client>>

resolveVars == <<rTyp, rOut>>

dispatchVars == <<dsp, msg, dpc, frame, replies, calls>>

----------------------------------------------------------------------------
(* Bounds of the model. *)

MaxDepth == 2      \* nesting depth of the Type trees handed to the resolver
MaxRuns == 2       \* Generate calls on one Generator
MaxMethods == 3    \* requests per model of the naming family
MaxEdges == 3      \* extends/mixins references per model of the inheritance family

----------------------------------------------------------------------------
(* strings, unicode *)

HasPrefix(s, p) == Len(s) >= Len(p) /\ SubSeq(s, 1, Len(p)) = p

TrimPrefix(s, p) == IF HasPrefix(s, p) THEN SubSeq(s, Len(p) + 1, Len(s)) ELSE s

CharAt(s, i) == SubSeq(s, i, i)

\* Printable ASCII the model uses, in code-point order.
Ascii == "$*/0123456789ABCDEFGHIJKLMNOPQRSTUVWXYZ[]abcdefghijklmnopqrstuvwxyz"

LowerLetters == "abcdefghijklmnopqrstuvwxyz"

UpperLetters == "ABCDEFGHIJKLMNOPQRSTUVWXYZ"

RECURSIVE IndexIn(_, _, _)
IndexIn(alphabet, c, i) ==
    IF i > Len(alphabet) THEN 0
    ELSE IF CharAt(alphabet, i) = c THEN i
    ELSE IndexIn(alphabet, c, i + 1)

ToUpper(c) ==
    LET i == IndexIn(LowerLetters, c, 1)
    IN  IF i = 0 THEN c ELSE CharAt(UpperLetters, i)

IsUpper(c) == IndexIn(UpperLetters, c, 1) # 0

\* runes := []rune(s); runes[0] = unicode.ToUpper(runes[0]); string(runes)
\* (s is not empty)
UpperFirst(s) == ToUpper(CharAt(s, 1)) \o SubSeq(s, 2, Len(s))

\* strings.LastIndex(s, c) for a one-character c, 1-based; 0 when absent.
RECURSIVE LastIndexFrom(_, _, _)
LastIndexFrom(s, c, i) ==
    IF i = 0 THEN 0
    ELSE IF CharAt(s, i) = c THEN i
    ELSE LastIndexFrom(s, c, i - 1)

LastIndex(s, c) == LastIndexFrom(s, c, Len(s))

\* strings.Split(s, sep) for a one-character sep.
RECURSIVE SplitFrom(_, _, _, _)
SplitFrom(s, sep, start, i) ==
    IF i > Len(s) THEN <<SubSeq(s, start, Len(s))>>
    ELSE IF CharAt(s, i) = sep
         THEN <<SubSeq(s, start, i - 1)>> \o SplitFrom(s, sep, i + 1, i + 1)
         ELSE SplitFrom(s, sep, start, i + 1)

Split(s, sep) == SplitFrom(s, sep, 1, 1)

\* strings.Index(s, sub), 1-based; 0 when absent.
RECURSIVE IndexFrom(_, _, _)
IndexFrom(s, sub, i) ==
    IF i + Len(sub) - 1 > Len(s) THEN 0
    ELSE IF SubSeq(s, i, i + Len(sub) - 1) = sub THEN i
    ELSE IndexFrom(s, sub, i + 1)

\* strings.Replace(s, old, new, 1)
ReplaceFirst(s, old, new) ==
    LET i == IndexFrom(s, old, 1)
    IN  IF i = 0 THEN s
        ELSE SubSeq(s, 1, i - 1) \o new \o SubSeq(s, i + Len(old), Len(s))

\* cmp.Compare(a, b) < 0 on strings: byte-wise lexicographic order.
RECURSIVE StrLessFrom(_, _, _)
StrLessFrom(a, b, i) ==
    IF i > Len(a) THEN i <= Len(b)
    ELSE IF i > Len(b) THEN FALSE
    ELSE IF CharAt(a, i) = CharAt(b, i) THEN StrLessFrom(a, b, i + 1)
    ELSE IndexIn(Ascii, CharAt(a, i), 1) < IndexIn(Ascii, CharAt(b, i), 1)

StrLess(a, b) == StrLessFrom(a, b, 1)

\* slices.Sort(names): insertion of x after its equals.
RECURSIVE InsertString(_, _)
InsertString(x, seq) ==
    IF seq = <<>> THEN <<x>>
    ELSE IF StrLess(x, Head(seq)) THEN <<x>> \o seq
    ELSE <<Head(seq)>> \o InsertString(x, Tail(seq))

\* slices.Sort(names), had it left the names as they came.
SortStrings_None(seq) == seq

RECURSIVE SortStrings(_)
SortStrings(seq) ==
    IF seq = <<>> THEN <<>>
    ELSE InsertString(seq[Len(seq)], SortStrings(SubSeq(seq, 1, Len(seq) - 1)))

Range(seq) == {seq[i] : i \in 1..Len(seq)}

RECURSIVE SetToSeq(_)
SetToSeq(S) ==
    IF S = {} THEN <<>>
    ELSE LET x == CHOOSE y \in S : TRUE IN <<x>> \o SetToSeq(S \ {x})

Reverse(seq) == [i \in 1..Len(seq) |-> seq[Len(seq) + 1 - i]]

\* `for name := range m` yields the keys in an order Go leaves open: the
\* orders tried are one order, its reverse, and it rotated by one.
IterationOrders == {"forward", "reversed", "rotated"}

MapRange(S, order) ==
    CASE order = "reversed" -> Reverse(SetToSeq(S))
      [] order = "rotated" /\ S # {} -> Tail(SetToSeq(S)) \o <<Head(SetToSeq(S))>>
      [] OTHER -> SetToSeq(S)

----------------------------------------------------------------------------
(* model.go: the meta-model IR *)

NilType == [kind |-> "<nil>"]
NilLit == [id |-> 0, properties |-> <<>>, isNil |-> TRUE]

BaseT(n) == [kind |-> "base", name |-> n]
RefT(n) == [kind |-> "reference", name |-> n]
ArrayT(e) == [kind |-> "array", element |-> e]
MapT(k, v) == [kind |-> "map", key |-> k, mapValue |-> v]
OrT(items) == [kind |-> "or", items |-> items]
AndT(items) == [kind |-> "and", items |-> items]
TupleT(items) == [kind |-> "tuple", items |-> items]
LiteralT(lit) == [kind |-> "literal", literal |-> lit]
KindT(k) == [kind |-> k]

\* A *LiteralType: id stands for the address of the allocation.
Lit(id, props) == [id |-> id, properties |-> props, isNil |-> FALSE]

Prop(name, type, optional, proposed) ==
    [name |-> name, type |-> type, optional |-> optional, proposed |-> proposed]

Struct(name, props, extends, mixins, proposed) ==
    [name |-> name, properties |-> props, extends |-> extends,
     mixins |-> mixins, proposed |-> proposed]

Enum(name, baseName, values, proposed) ==
    [name |-> name, type |-> [kind |-> "base", name |-> baseName],
     values |-> values, proposed |-> proposed]

EnumVal(name, value, proposed) == [name |-> name, value |-> value, proposed |-> proposed]

Alias(name, type, proposed) == [name |-> name, type |-> type, proposed |-> proposed]

Req(method, dir, params, result, proposed) ==
    [method |-> method, messageDirection |-> dir, params |-> params,
     result |-> result, proposed |-> proposed]

Notif(method, dir, params, proposed) ==
    [method |-> method, messageDirection |-> dir, params |-> params,
     proposed |-> proposed]

MkModel(reqs, notifs, structures, enums, aliases) ==
    [requests |-> reqs, notifications |-> notifs, structures |-> structures,
     enumerations |-> enums, typeAliases |-> aliases]

EmptyModel == MkModel(<<>>, <<>>, <<>>, <<>>, <<>>)

----------------------------------------------------------------------------
(* generator.go: NewGenerator, the type resolver, the name mapper *)

\* One statement after another: the value v a statement leaves (a result and
\* the Generator it wrote to) is what the statements after it, F, start from.
Then(v, F(_)) == F(v)

\* A Go map filled by `for idx := range xs { m[xs[idx].Name] = &xs[idx] }`:
\* the last entry with a key wins.
IndexByName(xs) ==
    [k \in {xs[i].name : i \in 1..Len(xs)} |->
        xs[CHOOSE i \in 1..Len(xs) :
            xs[i].name = k /\ \A j \in (i + 1)..Len(xs) : xs[j].name # k]]

\* The same, keyed by Method.
IndexByMethod(xs) ==
    [k \in {xs[i].method : i \in 1..Len(xs)} |->
        xs[CHOOSE i \in 1..Len(xs) :
            xs[i].method = k /\ \A j \in (i + 1)..Len(xs) : xs[j].method # k]]

NewGenerator(model) ==
    [Model |-> model,
     structs |-> IndexByName(model.structures),
     enums |-> IndexByName(model.enumerations),
     aliases |-> IndexByName(model.typeAliases),
     requests |-> IndexByMethod(model.requests),
     notifs |-> IndexByMethod(model.notifications),
     namedLiterals |-> <<>>,
     literalCounter |-> 0]

resolveBaseType_Echo(name) == name

resolveBaseType(name) ==
    CASE name \in {"string", "RegExp"} -> "string"
      [] name = "DocumentUri" -> "DocumentURI"
      [] name = "URI" -> "URI"
      [] name = "integer" -> "int32"
      [] name = "uinteger" -> "uint32"
      [] name = "decimal" -> "float64"
      [] name = "boolean" -> "bool"
      [] name = "null" -> "any"
      [] name \in {"LSPAny", "LSPObject"} -> "any"
      [] name = "LSPArray" -> "[]any"
      [] OTHER -> "any"

\* needsPointerForNull without the map case.
needsPointerForNull_NoMap(goType) ==
    IF HasPrefix(goType, "*") \/ HasPrefix(goType, "[]") THEN FALSE ELSE goType # "any"

needsPointerForNull(goType) ==
    IF HasPrefix(goType, "*") \/ HasPrefix(goType, "[]") \/ HasPrefix(goType, "map[")
    THEN FALSE
    ELSE goType # "any"

\* g.literalCounter++; name := "Literal<counter>"; g.namedLiterals[name] = lit
\* promoteLiteral, had it used one name for every literal.
promoteLiteral_OneName(lit, gen) ==
    IF lit.isNil THEN [s |-> "any", g |-> gen]
    ELSE [s |-> "Literal1",
          g |-> [gen EXCEPT !.literalCounter = 1, !.namedLiterals = ("Literal1" :> lit) @@ @]]

promoteLiteral(lit, gen) ==
    IF lit.isNil THEN [s |-> "any", g |-> gen]
    ELSE LET c == gen.literalCounter + 1
             name == "Literal" \o ToString(c)
         IN  [s |-> name,
              g |-> [gen EXCEPT !.literalCounter = c,
                                !.namedLiterals = (name :> lit) @@ @]]

IsNullType(item) == item.kind = "base" /\ item.name = "null"

\* The resolver returns the Go type string s and the Generator g it leaves
\* behind (promoteLiteral writes to it).
RECURSIVE resolveGoType(_, _)
resolveUnion(items, gen) ==
    LET nonNull == SelectSeq(items, LAMBDA item : ~IsNullType(item))
        hasNull == Len(nonNull) < Len(items)
    IN  IF Len(nonNull) = 1
        THEN Then(resolveGoType(nonNull[1], gen), LAMBDA r :
                 IF hasNull /\ needsPointerForNull(r.s)
                 THEN [s |-> "*" \o r.s, g |-> r.g]
                 ELSE r)
        ELSE [s |-> "any", g |-> gen]

resolveGoType(typ, gen) ==
    IF typ = NilType THEN [s |-> "any", g |-> gen]
    ELSE CASE typ.kind = "base" -> [s |-> resolveBaseType(typ.name), g |-> gen]
           [] typ.kind = "reference" -> [s |-> typ.name, g |-> gen]
           [] typ.kind = "array" ->
                Then(resolveGoType(typ.element, gen), LAMBDA e :
                    [s |-> "[]" \o e.s, g |-> e.g])
           [] typ.kind = "map" ->
                Then(resolveGoType(typ.key, gen), LAMBDA k :
                Then(resolveGoType(typ.mapValue, k.g), LAMBDA v :
                    [s |-> "map[" \o k.s \o "]" \o v.s, g |-> v.g]))
           [] typ.kind = "or" -> resolveUnion(typ.items, gen)
           [] typ.kind = "and" -> [s |-> "any", g |-> gen]
           [] typ.kind = "tuple" -> [s |-> "any", g |-> gen]
           [] typ.kind = "literal" -> promoteLiteral(typ.literal, gen)
           [] typ.kind = "stringLiteral" -> [s |-> "string", g |-> gen]
           [] typ.kind = "integerLiteral" -> [s |-> "int32", g |-> gen]
           [] typ.kind = "booleanLiteral" -> [s |-> "bool", g |-> gen]
           [] OTHER -> [s |-> "any", g |-> gen]

fieldNameOverrides ==
    [k \in {"uri", "id", "jsonrpc", "documentUri", "baseUri", "rootUri",
            "resourceUri", "oldUri", "newUri", "scopeUri", "textDocument"} |->
        CASE k = "uri" -> "URI"
          [] k = "id" -> "ID"
          [] k = "jsonrpc" -> "JSONRPC"
          [] k = "documentUri" -> "DocumentURI"
          [] k = "baseUri" -> "BaseURI"
          [] k = "rootUri" -> "RootURI"
          [] k = "resourceUri" -> "ResourceURI"
          [] k = "oldUri" -> "OldURI"
          [] k = "newUri" -> "NewURI"
          [] k = "scopeUri" -> "ScopeURI"
          [] k = "textDocument" -> "TextDocument"]

abbreviationPrefixes ==
    << [mixed |-> "Uri", upper |-> "URI"], [mixed |-> "Id", upper |-> "ID"],
       [mixed |-> "Json", upper |-> "JSON"], [mixed |-> "Utf", upper |-> "UTF"],
       [mixed |-> "Lsp", upper |-> "LSP"], [mixed |-> "Url", upper |-> "URL"],
       [mixed |-> "Html", upper |-> "HTML"], [mixed |-> "Css", upper |-> "CSS"] >>

RECURSIVE ApplyAbbreviations(_, _)
ApplyAbbreviations(result, i) ==
    IF i > Len(abbreviationPrefixes) THEN result
    ELSE LET prefix == abbreviationPrefixes[i]
             rest == SubSeq(result, Len(prefix.mixed) + 1, Len(result))
         IN  IF HasPrefix(result, prefix.mixed)
                /\ (rest = "" \/ IsUpper(CharAt(rest, 1)))
             THEN prefix.upper \o rest
             ELSE ApplyAbbreviations(result, i + 1)

GoFieldName_NoAbbreviation(lspName) ==
    IF lspName = "" THEN ""
    ELSE IF lspName \in DOMAIN fieldNameOverrides THEN fieldNameOverrides[lspName]
    ELSE UpperFirst(lspName)

GoFieldName(lspName) ==
    IF lspName = "" THEN ""
    ELSE IF lspName \in DOMAIN fieldNameOverrides THEN fieldNameOverrides[lspName]
    ELSE ApplyAbbreviations(UpperFirst(lspName), 1)

GoMethodName(method) ==
    LET idx == LastIndex(method, "/")
        name == IF idx > 0 THEN SubSeq(method, idx + 1, Len(method)) ELSE method
    IN  IF name = "" THEN "" ELSE UpperFirst(name)

\* Concatenation of the capitalised non-empty parts.
RECURSIVE JoinCapitalised(_)
JoinCapitalised(parts) ==
    IF parts = <<>> THEN ""
    ELSE (IF Head(parts) = "" THEN "" ELSE UpperFirst(Head(parts)))
         \o JoinCapitalised(Tail(parts))

GoMethodNameFull(method) == JoinCapitalised(Split(TrimPrefix(method, "$/"), "/"))

methodConstName(method) ==
    "Method" \o JoinCapitalised(Split(TrimPrefix(method, "$/"), "/"))

GoEnumValueName(enumName, valueName) ==
    IF valueName = "" THEN enumName ELSE enumName \o UpperFirst(valueName)

\* The struct tag, as the pair the tag string is formatted from.
JSONTag(lspName, optional) == [json |-> lspName, omitempty |-> optional]

IsServerMethod_NotClientOnly(direction) == direction # "serverToClient"

IsServerMethod(direction) == direction = "clientToServer" \/ direction = "both"

IsClientMethod(direction) == direction = "serverToClient" \/ direction = "both"

----------------------------------------------------------------------------
(* output.go: property collection and types_gen.go *)

\* result after `for _, p := range props { if !seen[p.Name] { seen[p.Name] =
\* true; result = append(result, p) } }`; seen holds the names of result.
\* AppendUnseen without the seen check.
AppendUnseen_KeepAll(result, props) == result \o props

RECURSIVE AppendUnseen(_, _)
AppendUnseen(result, props) ==
    IF props = <<>> THEN result
    ELSE LET p == Head(props)
             isSeen == \E i \in 1..Len(result) : result[i].name = p.name
         IN  AppendUnseen(IF isSeen THEN result ELSE Append(result, p), Tail(props))

\* collectPropertiesImpl returns the properties and leaves its writes in the
\* visited map the caller shares with it.
RECURSIVE collectPropertiesImpl(_, _, _)
RECURSIVE collectBases(_, _, _, _)
collectBases(gen, bases, i, acc) ==
    IF i > Len(bases) THEN acc
    ELSE LET ext == bases[i]
         IN  IF ext.kind = "reference" /\ ext.name \in DOMAIN gen.structs
             THEN Then(collectPropertiesImpl(gen, gen.structs[ext.name], acc.visited),
                       LAMBDA r :
                           collectBases(gen, bases, i + 1,
                               [result |-> AppendUnseen(acc.result, r.result),
                                visited |-> r.visited]))
             ELSE collectBases(gen, bases, i + 1, acc)

collectPropertiesImpl(gen, structure, visited) ==
    IF structure.name \in visited THEN [result |-> <<>>, visited |-> visited]
    ELSE LET own == [result |-> AppendUnseen(<<>>, structure.properties),
                     visited |-> visited \cup {structure.name}]
             withExtends == collectBases(gen, structure.extends, 1, own)
         IN  collectBases(gen, structure.mixins, 1, withExtends)

\* collectProperties, had it started with the structure already in visited.
collectProperties_Visited(gen, s) == collectPropertiesImpl(gen, s, {s.name}).result

\* collectProperties, had the visited map been kept on the Generator: it
\* then holds the structures collected before s, those that precede it in
\* the model.
collectProperties_SharedVisited(gen, s) ==
    collectPropertiesImpl(gen, s,
        {gen.Model.structures[j].name :
            j \in {j \in 1..Len(gen.Model.structures) :
                      \A k \in 1..j : gen.Model.structures[k].name # s.name}}).result

\* g.collectPropertiesImpl(s, make(map[string]bool))
collectProperties(gen, s) == collectPropertiesImpl(gen, s, {}).result

optionalType_Always(goType, optional) == IF optional THEN "*" \o goType ELSE goType

optionalType(goType, optional) ==
    IF ~optional THEN goType
    ELSE IF needsPointerForNull(goType) THEN "*" \o goType
    ELSE goType

resolveEnumBaseType(t) ==
    CASE t.name = "string" -> "string"
      [] t.name = "integer" -> "int32"
      [] t.name = "uinteger" -> "uint32"
      [] OTHER -> "string"

\* Enumeration values are [num |-> TRUE, n |-> <integer>] or
\* [num |-> FALSE, s |-> <string>].
formatNumericValue(v) == IF v.num THEN ToString(v.n) ELSE v.s

Quote(v) == IF v.num THEN "%!q(" \o ToString(v.n) \o ")" ELSE "\"" \o v.s \o "\""

\* The emission loops without their `continue`.
SkipProposed_Never(x) == FALSE

\* `if x.Proposed { continue }` of the emission loops.
SkipProposed(x) == x.proposed

\* The field lines of one struct declaration: the loop over props.
RECURSIVE emitFields(_, _, _)
emitFields(props, i, gen) ==
    IF i > Len(props) THEN [fields |-> <<>>, g |-> gen]
    ELSE IF SkipProposed(props[i]) THEN emitFields(props, i + 1, gen)
    ELSE Then(resolveGoType(props[i].type, gen), LAMBDA r :
         Then(emitFields(props, i + 1, r.g), LAMBDA rest :
             [fields |-> <<[name |-> GoFieldName(props[i].name),
                            type |-> optionalType(r.s, props[i].optional),
                            tag |-> JSONTag(props[i].name, props[i].optional)]>>
                         \o rest.fields,
              g |-> rest.g]))

RECURSIVE emitStructures(_, _, _)
emitStructures(structures, i, gen) ==
    IF i > Len(structures) THEN [buf |-> <<>>, g |-> gen]
    ELSE IF SkipProposed(structures[i]) THEN emitStructures(structures, i + 1, gen)
    ELSE Then(emitFields(collectProperties(gen, structures[i]), 1, gen), LAMBDA r :
         Then(emitStructures(structures, i + 1, r.g), LAMBDA rest :
             [buf |-> <<[decl |-> "struct", name |-> structures[i].name,
                         fields |-> r.fields]>>
                      \o rest.buf,
              g |-> rest.g]))

RECURSIVE emitEnumValues(_, _, _, _)
emitEnumValues(enum, goType, values, i) ==
    IF i > Len(values) THEN <<>>
    ELSE IF SkipProposed(values[i]) THEN emitEnumValues(enum, goType, values, i + 1)
    ELSE <<[name |-> GoEnumValueName(enum.name, values[i].name),
            type |-> enum.name,
            value |-> IF goType = "string" THEN Quote(values[i].value)
                      ELSE formatNumericValue(values[i].value)]>>
         \o emitEnumValues(enum, goType, values, i + 1)

RECURSIVE emitEnumerations(_, _)
emitEnumerations(enums, i) ==
    IF i > Len(enums) THEN <<>>
    ELSE IF SkipProposed(enums[i]) THEN emitEnumerations(enums, i + 1)
    ELSE LET enum == enums[i]
             goType == resolveEnumBaseType(enum.type)
         IN  <<[decl |-> "enum", name |-> enum.name, goType |-> goType,
                consts |-> emitEnumValues(enum, goType, enum.values, 1)]>>
             \o emitEnumerations(enums, i + 1)

RECURSIVE emitAliases(_, _, _)
emitAliases(aliases, i, gen) ==
    IF i > Len(aliases) THEN [buf |-> <<>>, g |-> gen]
    ELSE IF SkipProposed(aliases[i]) THEN emitAliases(aliases, i + 1, gen)
    ELSE Then(resolveGoType(aliases[i].type, gen), LAMBDA r :
         Then(emitAliases(aliases, i + 1, r.g), LAMBDA rest :
             [buf |-> <<[decl |-> "alias", name |-> aliases[i].name, type |-> r.s]>>
                      \o rest.buf,
              g |-> rest.g]))

\* The loop over the sorted names taken from namedLiterals before the loop.
RECURSIVE emitLiterals(_, _, _)
emitLiterals(names, i, gen) ==
    IF i > Len(names) THEN [buf |-> <<>>, g |-> gen]
    ELSE Then(emitFields(gen.namedLiterals[names[i]].properties, 1, gen), LAMBDA r :
         Then(emitLiterals(names, i + 1, r.g), LAMBDA rest :
             [buf |-> <<[decl |-> "struct", name |-> names[i], fields |-> r.fields]>>
                      \o rest.buf,
              g |-> rest.g]))

generateTypes(gen, order) ==
    Then(emitStructures(gen.Model.structures, 1, gen), LAMBDA st :
    Then(emitEnumerations(gen.Model.enumerations, 1), LAMBDA en :
    Then(emitAliases(gen.Model.typeAliases, 1, st.g), LAMBDA al :
    Then(SortStrings(MapRange(DOMAIN al.g.namedLiterals, order)), LAMBDA names :
    Then(emitLiterals(names, 1, al.g), LAMBDA li :
        [buf |-> st.buf \o en \o al.buf \o li.buf, g |-> li.g])))))

----------------------------------------------------------------------------
(* output.go: the method planner *)

OverridePairs ==
    { <<"textDocument/didOpen", "DidOpen">>,
      <<"textDocument/didClose", "DidClose">>,
      <<"textDocument/didChange", "DidChange">>,
      <<"textDocument/didSave", "DidSave">>,
      <<"completionItem/resolve", "CompletionResolve">>,
      <<"codeLens/resolve", "CodeLensResolve">>,
      <<"documentLink/resolve", "DocumentLinkResolve">>,
      <<"codeAction/resolve", "CodeActionResolve">>,
      <<"inlayHint/resolve", "InlayHintResolve">>,
      <<"workspaceSymbol/resolve", "WorkspaceSymbolResolve">>,
      <<"textDocument/diagnostic", "Diagnostic">>,
      <<"textDocument/foldingRange", "FoldingRanges">>,
      <<"workspace/symbol", "Symbols">>,
      <<"textDocument/semanticTokens/full", "SemanticTokensFull">>,
      <<"textDocument/semanticTokens/full/delta", "SemanticTokensFullDelta">>,
      <<"textDocument/semanticTokens/range", "SemanticTokensRange">>,
      <<"window/workDoneProgress/cancel", "WorkDoneProgressCancel">> }

methodNameOverrides ==
    [k \in {p[1] : p \in OverridePairs} |-> (CHOOSE p \in OverridePairs : p[1] = k)[2]]

resolveMethodType_NoPointer(gen, t) ==
    IF t = NilType THEN [s |-> "", g |-> gen] ELSE resolveGoType(t, gen)

resolveMethodType(gen, t) ==
    IF t = NilType THEN [s |-> "", g |-> gen]
    ELSE Then(resolveGoType(t, gen), LAMBDA r :
             IF r.s = "any" THEN [s |-> "any", g |-> r.g]
             ELSE IF r.s \in DOMAIN gen.structs THEN [s |-> "*" \o r.s, g |-> r.g]
             ELSE r)

RequestSignature_NoResult(goName, paramsType, resultType) ==
    IF paramsType # ""
    THEN goName \o "(ctx context.Context, params " \o paramsType \o ") error"
    ELSE goName \o "(ctx context.Context) error"

\* The fmt.Sprintf of the signature, by the four cases of the switch.
RequestSignature(goName, paramsType, resultType) ==
    CASE paramsType # "" /\ resultType # "" ->
             goName \o "(ctx context.Context, params " \o paramsType \o ") ("
                    \o resultType \o ", error)"
      [] paramsType # "" /\ resultType = "" ->
             goName \o "(ctx context.Context, params " \o paramsType \o ") error"
      [] paramsType = "" /\ resultType # "" ->
             goName \o "(ctx context.Context) (" \o resultType \o ", error)"
      [] OTHER -> goName \o "(ctx context.Context) error"

buildRequestMethod(gen, req) ==
    Then(GoMethodName(req.method), LAMBDA goName :
    Then(resolveMethodType(gen, req.params), LAMBDA p :
    Then(resolveMethodType(p.g, req.result), LAMBDA r :
        [m |-> [method |-> req.method, goName |-> goName,
                signature |-> RequestSignature(goName, p.s, r.s),
                isRequest |-> TRUE, paramsType |-> p.s, resultType |-> r.s],
         g |-> r.g])))

buildNotificationMethod(gen, notif) ==
    Then(GoMethodName(notif.method), LAMBDA goName :
    Then(resolveMethodType(gen, notif.params), LAMBDA p :
        [m |-> [method |-> notif.method, goName |-> goName,
                signature |-> IF p.s # ""
                              THEN goName \o "(ctx context.Context, params "
                                          \o p.s \o ") error"
                              ELSE goName \o "(ctx context.Context) error",
                isRequest |-> FALSE, paramsType |-> p.s, resultType |-> ""],
         g |-> p.g]))

\* pinned[idx] of disambiguateMethods: the method has an override.
IsPinned(m) == m.method \in DOMAIN methodNameOverrides

\* methods[idx] with goName set to name and the signature left as it was.
Rename_NameOnly(m, name) == [m EXCEPT !.goName = name]

\* methods[idx] with goName set to name, in the signature too.
Rename(m, name) ==
    [m EXCEPT !.signature = ReplaceFirst(m.signature, m.goName \o "(", name \o "("),
              !.goName = name]

\* counts[name], had the counting loop left the pinned methods out.
CountName_Unpinned(methods, name) ==
    Cardinality({i \in 1..Len(methods) : methods[i].goName = name /\ ~IsPinned(methods[i])})

\* counts[name], had every name been counted once more.
CountName_PlusOne(methods, name) ==
    Cardinality({i \in 1..Len(methods) : methods[i].goName = name}) + 1

\* counts[name] after `for _, m := range methods { counts[m.goName]++ }`.
CountName(methods, name) == Cardinality({i \in 1..Len(methods) : methods[i].goName = name})

applyOverrides_None(methods) == methods

\* The first loop: `if override, ok := methodNameOverrides[m.method]; ok`.
applyOverrides(methods) ==
    [idx \in 1..Len(methods) |->
        IF IsPinned(methods[idx])
        THEN Rename(methods[idx], methodNameOverrides[methods[idx].method])
        ELSE methods[idx]]

\* The counting loop and the renaming loop, on the methods the first loop left.
renameCollisions(methods) ==
    [idx \in 1..Len(methods) |->
        IF IsPinned(methods[idx]) THEN methods[idx]
        ELSE IF CountName(methods, methods[idx].goName) > 1
             THEN Rename(methods[idx], GoMethodNameFull(methods[idx].method))
             ELSE methods[idx]]

disambiguateMethods(methods) == renameCollisions(applyOverrides(methods))

\* slices.SortFunc(methods, cmp.Compare(a.method, b.method)): the insertion
\* sort the library runs on short slices.
RECURSIVE InsertMethod(_, _)
InsertMethod(x, seq) ==
    IF seq = <<>> THEN <<x>>
    ELSE IF StrLess(x.method, Head(seq).method) THEN <<x>> \o seq
    ELSE <<Head(seq)>> \o InsertMethod(x, Tail(seq))

SortMethods_None(seq) == seq

RECURSIVE SortMethods(_)
SortMethods(seq) ==
    IF seq = <<>> THEN <<>>
    ELSE InsertMethod(seq[Len(seq)], SortMethods(SubSeq(seq, 1, Len(seq) - 1)))

\* The direction test of the loops: IsServerMethod in collectServerMethods,
\* IsClientMethod in collectClientMethods.
Wanted(direction, side) ==
    IF side = "server" THEN IsServerMethod(direction) ELSE IsClientMethod(direction)

RECURSIVE appendRequests(_, _, _, _)
appendRequests(reqs, i, side, gen) ==
    IF i > Len(reqs) THEN [methods |-> <<>>, g |-> gen]
    ELSE IF SkipProposed(reqs[i]) \/ ~Wanted(reqs[i].messageDirection, side)
         THEN appendRequests(reqs, i + 1, side, gen)
    ELSE Then(buildRequestMethod(gen, reqs[i]), LAMBDA b :
         Then(appendRequests(reqs, i + 1, side, b.g), LAMBDA rest :
             [methods |-> <<b.m>> \o rest.methods, g |-> rest.g]))

RECURSIVE appendNotifications(_, _, _, _)
appendNotifications(notifs, i, side, gen) ==
    IF i > Len(notifs) THEN [methods |-> <<>>, g |-> gen]
    ELSE IF SkipProposed(notifs[i]) \/ ~Wanted(notifs[i].messageDirection, side)
         THEN appendNotifications(notifs, i + 1, side, gen)
    ELSE Then(buildNotificationMethod(gen, notifs[i]), LAMBDA b :
         Then(appendNotifications(notifs, i + 1, side, b.g), LAMBDA rest :
             [methods |-> <<b.m>> \o rest.methods, g |-> rest.g]))

collectMethods(gen, side) ==
    Then(appendRequests(gen.Model.requests, 1, side, gen), LAMBDA rq :
    Then(appendNotifications(gen.Model.notifications, 1, side, rq.g), LAMBDA nt :
        [methods |-> SortMethods(disambiguateMethods(rq.methods \o nt.methods)),
         g |-> nt.g]))

collectServerMethods(gen) == collectMethods(gen, "server")

collectClientMethods(gen) == collectMethods(gen, "client")

----------------------------------------------------------------------------
(* output.go: server_gen.go and client_gen.go *)

\* The loop, had it written a constant for every method.
emitConsts_All(methods, i, block) ==
    block \o [k \in 1..(Len(methods) - i + 1) |->
                 [name |-> methodConstName(methods[k + i - 1].method),
                  value |-> methods[k + i - 1].method]]

\* The constant block: the two loops over serverMethods and clientMethods
\* sharing the emitted set.
RECURSIVE emitConsts(_, _, _)
emitConsts(methods, i, block) ==
    IF i > Len(methods) THEN block
    ELSE Then(methodConstName(methods[i].method), LAMBDA constName :
             emitConsts(methods, i + 1,
                 IF constName # "" /\ ~\E k \in 1..Len(block) : block[k].name = constName
                 THEN Append(block, [name |-> constName, value |-> methods[i].method])
                 ELSE block))

\* The code of one `case "<method>":` arm, as the statements it holds:
\* decode (json.Unmarshal into `var params <bareType>`, replyParseError on
\* failure), the call of server.<goName> with or without &params, and the
\* reply: "result" for reply(ctx, result, err), "nil" for reply(ctx, nil,
\* err), "none" for `return server.<goName>(...)`.
writeRequestDispatch(info) ==
    [method |-> info.method,
     decode |-> info.paramsType # "",
     bareType |-> TrimPrefix(info.paramsType, "*"),
     goName |-> info.goName,
     withParams |-> info.paramsType # "",
     reply |-> IF info.resultType # "" THEN "result" ELSE "nil"]

writeNotificationDispatch(info) ==
    [method |-> info.method,
     decode |-> info.paramsType # "",
     bareType |-> TrimPrefix(info.paramsType, "*"),
     goName |-> info.goName,
     withParams |-> info.paramsType # "",
     reply |-> "none"]

\* A forwarder that hands back its result variable when Call has failed.
writeClientMethod_ResultOnError(info) ==
    [signature |-> info.signature,
     method |-> info.method,
     via |-> IF info.isRequest THEN "Call" ELSE "Notify",
     sendsParams |-> info.paramsType # "",
     bareResult |-> TrimPrefix(info.resultType, "*"),
     onError |-> IF ~info.isRequest \/ info.resultType = "" THEN "err"
                 ELSE IF HasPrefix(info.resultType, "*") THEN "&result, err"
                 ELSE "result, err",
     onSuccess |-> IF ~info.isRequest \/ info.resultType = "" THEN "err"
                   ELSE IF HasPrefix(info.resultType, "*") THEN "&result, nil"
                   ELSE "result, nil"]

\* One clientDispatcher method: Call or Notify, what it sends and what it
\* returns when Call fails ("nil", "zero" or only the error).
writeClientMethod(info) ==
    [signature |-> info.signature,
     method |-> info.method,
     via |-> IF info.isRequest THEN "Call" ELSE "Notify",
     sendsParams |-> info.paramsType # "",
     bareResult |-> TrimPrefix(info.resultType, "*"),
     onError |-> IF ~info.isRequest \/ info.resultType = "" THEN "err"
                 ELSE IF HasPrefix(info.resultType, "*") THEN "nil, err"
                 ELSE "zero, err",
     onSuccess |-> IF ~info.isRequest \/ info.resultType = "" THEN "err"
                   ELSE IF HasPrefix(info.resultType, "*") THEN "&result, nil"
                   ELSE "result, nil"]

\* One line of the interface: the signature, with the parts it is built from.
InterfaceLine(m) ==
    [goName |-> m.goName, method |-> m.method, signature |-> m.signature,
     paramsType |-> m.paramsType, resultType |-> m.resultType]

EmptyServer == [consts |-> <<>>, iface |-> <<>>, cases |-> <<>>]

EmptyClient == [iface |-> <<>>, forwarders |-> <<>>]

\* No message being dispatched, and the locals of serverDispatch before it
\* runs: the arm taken (0 is the default arm), the decode error, the values
\* the server method returned.
NoMsg == [method |-> "", params |-> "absent"]

NoFrame ==
    [arm |-> 0, params |-> "nil", decodeErr |-> "<nil>", result |-> "<nil>", err |-> "<nil>"]

\* The `switch req.Method()` arms, one per server method.
dispatchCase(m) ==
    IF m.isRequest THEN writeRequestDispatch(m) ELSE writeNotificationDispatch(m)

generateServer(gen) ==
    Then(collectServerMethods(gen), LAMBDA sm :
    Then(collectClientMethods(sm.g), LAMBDA cm :
        [buf |-> [consts |-> emitConsts(cm.methods, 1, emitConsts(sm.methods, 1, <<>>)),
                  iface |-> [i \in 1..Len(sm.methods) |-> InterfaceLine(sm.methods[i])],
                  cases |-> [i \in 1..Len(sm.methods) |-> dispatchCase(sm.methods[i])]],
         g |-> cm.g]))

generateClient(gen) ==
    Then(collectClientMethods(gen), LAMBDA cm :
        [buf |-> [iface |-> [i \in 1..Len(cm.methods) |-> InterfaceLine(cm.methods[i])],
                  forwarders |-> [i \in 1..Len(cm.methods) |->
                                     writeClientMethod(cm.methods[i])]],
         g |-> cm.g])

----------------------------------------------------------------------------
(* model.go: Type.UnmarshalJSON, on JSON documents. *)

\* JSON values.  JAbsent stands for a key that the object does not have.
JAbsent == [j |-> "absent"]
JNull == [j |-> "null"]
JStr(str) == [j |-> "string", s |-> str]
JInt(n) == [j |-> "number", n |-> n, integral |-> TRUE]
JFrac(n) == [j |-> "number", n |-> n, integral |-> FALSE]
JBool(b) == [j |-> "bool", b |-> b]
JArr(items) == [j |-> "array", items |-> items]
JObj(fields) == [j |-> "object", fields |-> fields]

\* The value of key k of the object j, JAbsent without the key.
Field(j, k) == IF k \in DOMAIN j.fields THEN j.fields[k] ELSE JAbsent

Decoded(v) == [err |-> "<nil>", v |-> v]

DecodeError(j, goType, v) ==
    [err |-> "json: cannot unmarshal " \o j.j \o " into Go value of type " \o goType, v |-> v]

\* json.Unmarshal into a string, an int64 and a bool that hold old: null and
\* an absent key leave the variable as it is.
UnmarshalString(j, old) ==
    CASE j.j \in {"absent", "null"} -> Decoded(old)
      [] j.j = "string" -> Decoded(j.s)
      [] OTHER -> DecodeError(j, "string", old)

UnmarshalInt64_Lenient(j, old) == Decoded(IF j.j = "number" THEN j.n ELSE old)

UnmarshalInt64(j, old) ==
    CASE j.j \in {"absent", "null"} -> Decoded(old)
      [] j.j = "number" /\ j.integral -> Decoded(j.n)
      [] OTHER -> DecodeError(j, "int64", old)

UnmarshalBool(j, old) ==
    CASE j.j \in {"absent", "null"} -> Decoded(old)
      [] j.j = "bool" -> Decoded(j.b)
      [] OTHER -> DecodeError(j, "bool", old)

\* The zero value of Type; NilType and NilLit are its nil pointers.
ZeroType ==
    [kind |-> "", name |-> "", element |-> NilType, key |-> NilType, mapValue |-> NilType,
     items |-> <<>>, literal |-> NilLit, stringValue |-> "", intValue |-> 0,
     boolValue |-> FALSE]

\* The zero value of the struct `plain` of UnmarshalJSON.
ZeroPlain ==
    [Kind |-> "", Name |-> "", Element |-> NilType, Key |-> NilType, Items |-> <<>>,
     Value |-> JAbsent]

\* The first error of a sequence of decode results, "<nil>" when none failed.
RECURSIVE FirstError(_)
FirstError(rs) ==
    IF rs = <<>> THEN "<nil>"
    ELSE IF Head(rs).err # "<nil>" THEN Head(rs).err
    ELSE FirstError(Tail(rs))

RECURSIVE UnmarshalType(_)
RECURSIVE UnmarshalTypes(_, _)
RECURSIVE UnmarshalProperties(_, _)

\* json.Unmarshal into a *Type field: null gives the nil pointer.
UnmarshalTypePtr(j) ==
    IF j.j \in {"absent", "null"} THEN Decoded(NilType) ELSE UnmarshalType(j)

\* json.Unmarshal into a []Type field, from item i on.
UnmarshalTypes(j, i) ==
    CASE j.j \in {"absent", "null"} -> Decoded(<<>>)
      [] j.j # "array" -> DecodeError(j, "[]generate.Type", <<>>)
      [] OTHER ->
           IF i > Len(j.items) THEN Decoded(<<>>)
           ELSE Then(UnmarshalType(j.items[i]), LAMBDA t :
                Then(UnmarshalTypes(j, i + 1), LAMBDA rest :
                    [err |-> FirstError(<<t, rest>>), v |-> <<t.v>> \o rest.v]))

\* json.Unmarshal(data, &pln)
UnmarshalPlain(j) ==
    CASE j.j = "null" -> Decoded(ZeroPlain)
      [] j.j # "object" -> DecodeError(j, "generate.plain", ZeroPlain)
      [] OTHER ->
           Then(UnmarshalString(Field(j, "kind"), ""), LAMBDA kind :
           Then(UnmarshalString(Field(j, "name"), ""), LAMBDA name :
           Then(UnmarshalTypePtr(Field(j, "element")), LAMBDA element :
           Then(UnmarshalTypePtr(Field(j, "key")), LAMBDA key :
           Then(UnmarshalTypes(Field(j, "items"), 1), LAMBDA items :
               [err |-> FirstError(<<kind, name, element, key, items>>),
                v |-> [Kind |-> kind.v, Name |-> name.v, Element |-> element.v,
                       Key |-> key.v, Items |-> items.v, Value |-> Field(j, "value")]])))))

\* json.Unmarshal into a Property.
UnmarshalProperty(j) ==
    CASE j.j = "null" -> Decoded(Prop("", ZeroType, FALSE, FALSE))
      [] j.j # "object" -> DecodeError(j, "generate.Property", Prop("", ZeroType, FALSE, FALSE))
      [] OTHER ->
           Then(UnmarshalString(Field(j, "name"), ""), LAMBDA name :
           Then(UnmarshalBool(Field(j, "optional"), FALSE), LAMBDA optional :
           Then(UnmarshalBool(Field(j, "proposed"), FALSE), LAMBDA proposed :
           Then(IF Field(j, "type") = JAbsent THEN Decoded(ZeroType)
                ELSE UnmarshalType(Field(j, "type")), LAMBDA type :
               [err |-> FirstError(<<name, optional, proposed, type>>),
                v |-> Prop(name.v, type.v, optional.v, proposed.v)]))))

\* json.Unmarshal into a []Property field, from item i on.
UnmarshalProperties(j, i) ==
    CASE j.j \in {"absent", "null"} -> Decoded(<<>>)
      [] j.j # "array" -> DecodeError(j, "[]generate.Property", <<>>)
      [] OTHER ->
           IF i > Len(j.items) THEN Decoded(<<>>)
           ELSE Then(UnmarshalProperty(j.items[i]), LAMBDA q :
                Then(UnmarshalProperties(j, i + 1), LAMBDA rest :
                    [err |-> FirstError(<<q, rest>>), v |-> <<q.v>> \o rest.v]))

\* json.Unmarshal(pln.Value, &lit) and t.Literal = &lit
UnmarshalLiteralType(j) ==
    CASE j.j = "null" -> Decoded(Lit(1, <<>>))
      [] j.j # "object" -> DecodeError(j, "generate.LiteralType", NilLit)
      [] OTHER ->
           Then(UnmarshalProperties(Field(j, "properties"), 1), LAMBDA ps :
               [err |-> ps.err, v |-> Lit(1, ps.v)])

\* The switch on t.Kind, reached when len(pln.Value) != 0.
UnmarshalValue(t, value) ==
    CASE t.kind = "map" ->
             Then(UnmarshalType(value), LAMBDA m :
                 [err |-> m.err, v |-> IF m.err = "<nil>" THEN [t EXCEPT !.mapValue = m.v] ELSE t])
      [] t.kind = "literal" ->
             Then(UnmarshalLiteralType(value), LAMBDA l :
                 [err |-> l.err, v |-> IF l.err = "<nil>" THEN [t EXCEPT !.literal = l.v] ELSE t])
      [] t.kind = "stringLiteral" ->
             Then(UnmarshalString(value, ""), LAMBDA r :
                 [err |-> r.err, v |-> IF r.err = "<nil>" THEN [t EXCEPT !.stringValue = r.v] ELSE t])
      [] t.kind = "integerLiteral" ->
             Then(UnmarshalInt64(value, 0), LAMBDA r :
                 [err |-> r.err, v |-> IF r.err = "<nil>" THEN [t EXCEPT !.intValue = r.v] ELSE t])
      [] t.kind = "booleanLiteral" ->
             Then(UnmarshalBool(value, FALSE), LAMBDA r :
                 [err |-> r.err, v |-> IF r.err = "<nil>" THEN [t EXCEPT !.boolValue = r.v] ELSE t])
      [] OTHER -> Decoded(t)

\* (*Type).UnmarshalJSON(data) on a zero Type: the error and the Type.
UnmarshalType(j) ==
    Then(UnmarshalPlain(j), LAMBDA pln :
        IF pln.err # "<nil>" THEN [err |-> pln.err, v |-> ZeroType]
        ELSE Then([ZeroType EXCEPT !.kind = pln.v.Kind, !.name = pln.v.Name,
                                   !.element = pln.v.Element, !.key = pln.v.Key,
                                   !.items = pln.v.Items], LAMBDA t :
                 IF pln.v.Value = JAbsent THEN Decoded(t)
                 ELSE UnmarshalValue(t, pln.v.Value)))

----------------------------------------------------------------------------
(* The resolver, applied to bounded Type trees. *)

LeafTypes ==
    {BaseT(n) : n \in {"string", "integer", "boolean", "null", "LSPAny", "LSPArray",
                       "DocumentUri", "bogus"}}
    \cup {RefT("Position"), NilType, KindT("stringLiteral"), KindT("integerLiteral"),
          KindT("booleanLiteral"), KindT("mystery"),
          AndT(<<RefT("A"), RefT("B")>>), TupleT(<<BaseT("integer")>>),
          LiteralT(Lit(1, <<>>)), LiteralT(NilLit), OrT(<<>>)}

WrapTypes(S) ==
    S \cup {ArrayT(t) : t \in S}
      \cup {MapT(BaseT("string"), t) : t \in S}
      \cup {OrT(<<t, BaseT("null")>>) : t \in S}
      \cup {OrT(<<BaseT("null"), t, BaseT("null")>>) : t \in S}
      \cup {OrT(<<t>>) : t \in S}
      \cup {OrT(<<t, RefT("Range")>>) : t \in S}

RECURSIVE TypesUpTo(_)
TypesUpTo(d) == IF d = 0 THEN LeafTypes ELSE WrapTypes(TypesUpTo(d - 1))

InitResolve ==
    /\ g = NewGenerator(EmptyModel)
    /\ rTyp \in TypesUpTo(MaxDepth)
    /\ rOut = "<none>"
    /\ pc = "start" /\ runs = 0
    /\ types = <<>> /\ server = EmptyServer /\ client = EmptyClient
    /\ dsp = <<>> /\ msg = NoMsg /\ dpc = "idle" /\ frame = NoFrame
    /\ replies = <<>> /\ calls = <<>>

Resolve ==
    /\ rOut = "<none>"
    /\ \E r \in {resolveGoType(rTyp, g)} : rOut' = r.s /\ g' = r.g
    /\ UNCHANGED <<pc, runs, types, server, client, rTyp>>
    /\ UNCHANGED dispatchVars

NextResolve == Resolve

SpecResolve == InitResolve /\ [][NextResolve]_vars

----------------------------------------------------------------------------
(* Loading: a Type document is decoded, and the decoded Type resolved. *)

DocKinds ==
    {"base", "reference", "array", "map", "or", "and", "tuple", "literal",
     "stringLiteral", "integerLiteral", "booleanLiteral", "mystery"}

StringTypeDoc == JObj(("kind" :> JStr("base")) @@ ("name" :> JStr("string")))

\* A literal body with one property.
BodyDoc ==
    JObj("properties" :> JArr(<<JObj(("name" :> JStr("range")) @@ ("type" :> StringTypeDoc)
                                      @@ ("optional" :> JBool(TRUE)))>>))

\* A body whose properties are no array.
BrokenBodyDoc == JObj("properties" :> JStr("x"))

\* A map type whose value is no type.
BrokenMapDoc == JObj(("kind" :> JStr("map")) @@ ("key" :> StringTypeDoc) @@ ("value" :> JStr("x")))

ValueDocs ==
    {JAbsent, JNull, JStr("x"), JInt(7), JFrac(1), JBool(TRUE), JArr(<<>>),
     StringTypeDoc, BodyDoc, BrokenBodyDoc, BrokenMapDoc}

\* The fields a document of the kind has besides kind and value.
OtherFields(kind) ==
    CASE kind \in {"base", "reference"} -> "name" :> JStr("string")
      [] kind = "array" -> "element" :> StringTypeDoc
      [] kind = "map" -> "key" :> StringTypeDoc
      [] kind \in {"or", "and", "tuple"} -> "items" :> JArr(<<StringTypeDoc, JNull>>)
      [] OTHER -> "since" :> JStr("3.17.0")

TypeDoc(kind, value) ==
    JObj(("kind" :> JStr(kind)) @@ OtherFields(kind)
            @@ (IF value = JAbsent THEN "kind" :> JStr(kind) ELSE "value" :> value))

\* The documents loaded: every kind with every value, the same inside an
\* array, and documents that are no object.
TypeDocs ==
    {TypeDoc(kind, value) : kind \in DocKinds, value \in ValueDocs}
        \cup {JObj(("kind" :> JStr("array")) @@ ("element" :> TypeDoc(kind, value))) :
                 kind \in {"map", "integerLiteral", "mystery"}, value \in ValueDocs}
        \cup {JNull, JStr("x"), JObj("kind" :> JInt(7))}

InitDecode ==
    /\ g = NewGenerator(EmptyModel)
    /\ \E doc \in TypeDocs : msg = [method |-> "", params |-> doc]
    /\ rTyp = NilType /\ rOut = "<none>"
    /\ pc = "start" /\ runs = 0
    /\ types = <<>> /\ server = EmptyServer /\ client = EmptyClient
    /\ dsp = <<>> /\ dpc = "idle" /\ frame = NoFrame
    /\ replies = <<>> /\ calls = <<>>

\* json.Unmarshal(doc, &t): the load stops on an error.
Unmarshal ==
    /\ pc = "start"
    /\ \E r \in {UnmarshalType(msg.params)} :
          /\ frame' = [frame EXCEPT !.decodeErr = r.err]
          /\ rTyp' = IF r.err = "<nil>" THEN r.v ELSE NilType
          /\ pc' = IF r.err = "<nil>" THEN "loaded" ELSE "loadFailed"
    /\ UNCHANGED <<g, runs, types, server, client, rOut, dsp, msg, dpc, replies, calls>>

\* g.resolveGoType(&t) on the loaded Type.
ResolveLoaded ==
    /\ pc = "loaded"
    /\ \E r \in {resolveGoType(rTyp, g)} : rOut' = r.s /\ g' = r.g
    /\ pc' = "resolved"
    /\ UNCHANGED <<runs, types, server, client, rTyp>>
    /\ UNCHANGED dispatchVars

NextDecode == Unmarshal \/ ResolveLoaded

SpecDecode == InitDecode /\ [][NextDecode]_vars

----------------------------------------------------------------------------
(* Generate, on bounded families of models. *)

\* out.Types, err = g.generateTypes(), of a Generate call that starts.
GenerateTypes ==
    /\ pc \in {"start", "done"}
    /\ runs < MaxRuns
    /\ \E order \in IterationOrders :
          \E r \in {generateTypes(g, order)} : types' = r.buf /\ g' = r.g
    /\ server' = EmptyServer /\ client' = EmptyClient
    /\ runs' = runs + 1
    /\ pc' = "typesDone"
    /\ UNCHANGED resolveVars
    /\ UNCHANGED dispatchVars

\* out.Server, err = g.generateServer()
GenerateServer ==
    /\ pc = "typesDone"
    /\ \E r \in {generateServer(g)} : server' = r.buf /\ g' = r.g
    /\ pc' = "serverDone"
    /\ UNCHANGED <<runs, types, client>>
    /\ UNCHANGED resolveVars
    /\ UNCHANGED dispatchVars

\* out.Client, err = g.generateClient(); return out, nil
GenerateClient ==
    /\ pc = "serverDone"
    /\ \E r \in {generateClient(g)} : client' = r.buf /\ g' = r.g
    /\ pc' = "done"
    /\ UNCHANGED <<runs, types, server>>
    /\ UNCHANGED resolveVars
    /\ UNCHANGED dispatchVars

InitGenerator(models) ==
    /\ \E m \in models : g = NewGenerator(m)
    /\ pc = "start" /\ runs = 0
    /\ types = <<>> /\ server = EmptyServer /\ client = EmptyClient
    /\ rTyp = NilType /\ rOut = "<none>"
    /\ dsp = <<>> /\ msg = NoMsg /\ dpc = "idle" /\ frame = NoFrame
    /\ replies = <<>> /\ calls = <<>>

(* The inheritance family: structures A, B, C with overlapping property   *)
(* names, any set of at most MaxEdges extends/mixins references between    *)
(* them (cycles and self-references included), the base lists in either    *)
(* order, and one property optionally proposed.  C also extends a name     *)
(* that is no structure, and A mixes in a type that is no reference.       *)

StructNames == <<"A", "B", "C">>

AllEdges == {<<from, to, via>> : from \in Range(StructNames), to \in Range(StructNames),
                                   via \in {"extends", "mixins"}}

EdgeSets == {E \in SUBSET AllEdges : Cardinality(E) <= MaxEdges}

BasesOf(E, from, via, rev) ==
    LET order == IF rev THEN Reverse(StructNames) ELSE StructNames
        targets == SelectSeq(order, LAMBDA to : <<from, to, via>> \in E)
    IN  [i \in 1..Len(targets) |-> RefT(targets[i])]

OwnProps(name, pp) ==
    CASE name = "A" -> <<Prop("x", BaseT("string"), FALSE, FALSE),
                         Prop("a", BaseT("integer"), TRUE, pp = 1)>>
      [] name = "B" -> <<Prop("x", BaseT("integer"), FALSE, pp = 2),
                         Prop("b", BaseT("boolean"), FALSE, FALSE)>>
      [] name = "C" -> <<Prop("b", BaseT("string"), TRUE, FALSE),
                         Prop("c", BaseT("DocumentUri"), FALSE, FALSE),
                         Prop("c", BaseT("boolean"), FALSE, FALSE)>>

InheritanceModel(E, rev, pp) ==
    MkModel(<<>>, <<>>,
            [i \in 1..Len(StructNames) |->
                LET n == StructNames[i]
                IN  Struct(n, OwnProps(n, pp),
                           (IF n = "C" THEN <<RefT("Missing")>> ELSE <<>>)
                               \o BasesOf(E, n, "extends", rev),
                           (IF n = "A" THEN <<BaseT("string")>> ELSE <<>>)
                               \o BasesOf(E, n, "mixins", rev),
                           FALSE)],
            <<>>, <<>>)

InheritanceModels ==
    {InheritanceModel(E, rev, pp) : E \in EdgeSets, rev \in BOOLEAN, pp \in 0..2}

InitCollect == InitGenerator(InheritanceModels)

NextCollect == GenerateTypes

SpecCollect == InitCollect /\ [][NextCollect]_vars

(* The proposed family: one model skeleton with a structure, an inherited   *)
(* structure, a literal, an enumeration, a type alias, a request and a      *)
(* notification, and every combination of their proposed flags.             *)

ProposedFlags == {"Params", "Params.uri", "Extra", "Extra.tag", "literal.n",
                  "Kind", "Kind.One", "Id", "hover", "logMessage"}

ProposedModel(P) ==
    MkModel(
        <<Req("textDocument/hover", "clientToServer", RefT("Params"), RefT("Extra"),
              "hover" \in P),
          Req("shutdown", "both", NilType, NilType, FALSE)>>,
        <<Notif("window/logMessage", "serverToClient", RefT("Extra"),
                "logMessage" \in P)>>,
        <<Struct("Params",
                 <<Prop("uri", BaseT("DocumentUri"), FALSE, "Params.uri" \in P),
                   Prop("options",
                        LiteralT(Lit(1, <<Prop("n", BaseT("integer"), FALSE,
                                               "literal.n" \in P),
                                          Prop("m", BaseT("string"), TRUE, FALSE)>>)),
                        TRUE, FALSE)>>,
                 <<RefT("Extra")>>, <<>>, "Params" \in P),
          Struct("Extra",
                 <<Prop("tag", BaseT("string"), FALSE, "Extra.tag" \in P)>>,
                 <<>>, <<>>, "Extra" \in P)>>,
        <<Enum("Kind", "integer",
               <<EnumVal("One", [num |-> TRUE, n |-> 1], "Kind.One" \in P),
                 EnumVal("Two", [num |-> TRUE, n |-> 2], FALSE)>>,
               "Kind" \in P)>>,
        <<Alias("Id", OrT(<<BaseT("integer"), BaseT("null")>>), "Id" \in P)>>)

ProposedModels == {ProposedModel(P) : P \in SUBSET ProposedFlags}

(* The literal family: one literal property that other structures inherit  *)
(* or not, with a literal nested in it or not, a request whose params are   *)
(* a literal in each direction, a type alias of a literal.                  *)

LiteralModel(shared, nested, inMethod, inAlias) ==
    LET inner == LiteralT(Lit(2, <<Prop("v", BaseT("integer"), FALSE, FALSE)>>))
        info == LiteralT(Lit(1, <<Prop("name", BaseT("string"), FALSE, FALSE)>>
                                \o (IF nested
                                    THEN <<Prop("inner", inner, FALSE, FALSE)>>
                                    ELSE <<>>)))
        bases == IF shared THEN <<RefT("Base")>> ELSE <<>>
    IN  MkModel(
            IF inMethod = "none" THEN <<>>
            ELSE <<Req("custom/op", inMethod,
                       LiteralT(Lit(3, <<Prop("q", BaseT("string"), FALSE, FALSE)>>)),
                       NilType, FALSE)>>,
            <<>>,
            <<Struct("Base", <<Prop("info", info, FALSE, FALSE)>>, <<>>, <<>>, FALSE),
              Struct("A", <<>>, bases, <<>>, FALSE),
              Struct("B", <<>>, <<>>, bases, FALSE)>>,
            <<>>,
            IF inAlias THEN <<Alias("Opts", LiteralT(Lit(4, <<>>)), FALSE)>> ELSE <<>>)

LiteralModels ==
    {LiteralModel(shared, nested, inMethod, inAlias) :
        shared \in BOOLEAN, nested \in BOOLEAN,
        inMethod \in {"none", "clientToServer", "serverToClient", "both"},
        inAlias \in BOOLEAN}

(* The naming family: up to MaxMethods methods with distinct method strings, *)
(* in any order, of direction both; the last `notifs` of them are           *)
(* notifications, the others requests.  The pool holds methods the override *)
(* map pins and methods it does not, with equal short names.                *)

MethodPool ==
    {"diagnostic", "completionItem/resolve", "typeHierarchy/resolve", "textDocument/diagnostic",
     "workspace/diagnostic", "workspace/codeLens/refresh",
     "workspace/inlayHint/refresh", "$/progress", "progress"}

SeqsNoRepeat(S, n) ==
    UNION {{q \in [1..k -> S] : \A i, j \in 1..k : i # j => q[i] # q[j]} : k \in 0..n}

NamingModel(methods, notifs) ==
    MkModel([i \in 1..(Len(methods) - notifs) |->
                Req(methods[i], "both", NilType, NilType, FALSE)],
            [i \in 1..notifs |->
                Notif(methods[Len(methods) - notifs + i], "both", NilType, FALSE)],
            <<>>, <<>>, <<>>)

NamingModels ==
    {NamingModel(methods, notifs) :
        methods \in SeqsNoRepeat(MethodPool, MaxMethods) \ {<<>>},
        notifs \in 0..1}

(* The signature family: one request and one notification with every        *)
(* direction, params and result shape.                                      *)

Directions == {"clientToServer", "serverToClient", "both", "sideways"}

ParamShapes == {NilType, RefT("HoverParams"), BaseT("LSPAny")}

ResultShapes ==
    {NilType, RefT("Hover"), ArrayT(RefT("Hover")), RefT("MarkupKind"), RefT("Pattern"),
     BaseT("string"), MapT(BaseT("string"), RefT("Hover")),
     OrT(<<RefT("Hover"), BaseT("null")>>)}

SignatureModel(rd, rp, rr, nd, np) ==
    MkModel(<<Req("textDocument/hover", rd, rp, rr, FALSE)>>,
            <<Notif("textDocument/didOpen", nd, np, FALSE)>>,
            <<Struct("HoverParams", <<>>, <<>>, <<>>, FALSE),
              Struct("Hover", <<>>, <<>>, <<>>, FALSE)>>,
            <<Enum("MarkupKind", "string",
                   <<EnumVal("PlainText", [num |-> FALSE, s |-> "plaintext"], FALSE)>>,
                   FALSE)>>,
            <<Alias("Pattern", BaseT("string"), FALSE)>>)

SignatureModels ==
    {SignatureModel(rd, rp, rr, nd, np) :
        rd \in Directions, rp \in ParamShapes, rr \in ResultShapes,
        nd \in Directions, np \in {NilType, RefT("HoverParams")}}

(* The field family: one structure with one property of every type shape,   *)
(* required or optional.                                                    *)

FieldShapes ==
    {BaseT("string"), BaseT("LSPAny"), RefT("Position"), ArrayT(RefT("Position")),
     MapT(BaseT("string"), RefT("Position")),
     OrT(<<RefT("Position"), BaseT("null")>>),
     OrT(<<ArrayT(BaseT("integer")), BaseT("null")>>)}

\* Property names: override keys, abbreviations at the start followed by the
\* end, an upper-case letter or a lower-case letter, and plain names.
PropertyNames ==
    {"", "uri", "id", "jsonrpc", "documentUri", "textDocument", "url", "urls", "idToken",
     "ident", "uriId", "htmlCss", "json", "jsonData", "utf8", "lspAny", "cssX", "Id",
     "documentUriX", "line"}

FieldModel(type, optional, name) ==
    MkModel(<<>>, <<>>,
            <<Struct("Position", <<Prop("line", BaseT("uinteger"), FALSE, FALSE)>>,
                     <<>>, <<>>, FALSE),
              Struct("Location", <<Prop(name, type, optional, FALSE)>>,
                     <<>>, <<>>, FALSE)>>,
            <<>>, <<>>)

FieldModels ==
    {FieldModel(type, optional, "textDocument") : type \in FieldShapes, optional \in BOOLEAN}
        \cup {FieldModel(BaseT("string"), FALSE, name) : name \in PropertyNames}

Init ==
    \/ InitGenerator(ProposedModels)
    \/ InitGenerator(LiteralModels)
    \/ InitGenerator(NamingModels)
    \/ InitGenerator(SignatureModels)
    \/ InitGenerator(FieldModels)

Next == GenerateTypes \/ GenerateServer \/ GenerateClient

Spec == Init /\ [][Next]_vars

----------------------------------------------------------------------------
(* serverDispatch, as generateServer emits it, run on incoming messages. *)

\* What req.Params() holds: nothing, the JSON null, a JSON object of the
\* expected shape, bytes that are no JSON, or JSON of another shape (a string).
ParamKinds == {"absent", "null", "valid", "invalid", "mismatch"}

\* json.Unmarshal(req.Params(), &params) returns nil: null and a fitting
\* object decode into any variable, other JSON only into `var params any`.
UnmarshalOK(kind, bareType) ==
    \/ kind \in {"null", "valid"}
    \/ kind = "mismatch" /\ bareType = "any"

\* The error json.Unmarshal returns otherwise.
UnmarshalError(kind) ==
    CASE kind = "absent" -> "unexpected end of JSON input"
      [] kind = "invalid" -> "invalid character"
      [] OTHER -> "json: cannot unmarshal"

\* What json.Unmarshal leaves in params, had it left the variable untouched.
DecodedValue_Nil(kind) == "nil"

\* What json.Unmarshal leaves in params when it returns nil: the JSON null
\* leaves the zero value, an object or another JSON value is stored.
DecodedValue(kind) ==
    CASE kind = "null" -> "nil"
      [] kind = "valid" -> "object"
      [] OTHER -> "string"

\* replyParseError, had it dropped the error it is given.
replyParseError_Bare(err) == [result |-> "nil", err |-> [msg |-> "invalid params", wraps |-> "<nil>"]]

\* reply(ctx, nil, fmt.Errorf("invalid params: %w", err))
replyParseError(err) == [result |-> "nil", err |-> [msg |-> "invalid params", wraps |-> err]]

\* The arm of `switch req.Method()` a method string selects; 0 is default.
ArmOf(method) ==
    IF \E i \in 1..Len(dsp) : dsp[i].method = method
    THEN CHOOSE i \in 1..Len(dsp) : dsp[i].method = method
    ELSE 0

DispatchMethods == {"textDocument/hover", "textDocument/didOpen", "custom/method"}

\* The handler is called with a message: h(ctx, reply, req).
Receive ==
    /\ dpc \in {"idle", "returned"}
    /\ \E method \in DispatchMethods, params \in ParamKinds :
          msg' = [method |-> method, params |-> params]
    /\ frame' = NoFrame
    /\ replies' = <<>> /\ calls' = <<>>
    /\ dpc' = "switch"
    /\ UNCHANGED dsp
    /\ UNCHANGED genVars /\ UNCHANGED resolveVars

\* switch req.Method(): a case arm that declares params decodes them, the
\* default arm decodes them when req.Params() != nil.
Switch ==
    /\ dpc = "switch"
    /\ frame' = [frame EXCEPT !.arm = ArmOf(msg.method)]
    /\ dpc' = IF ArmOf(msg.method) > 0
              THEN (IF dsp[ArmOf(msg.method)].decode THEN "decode" ELSE "call")
              ELSE (IF msg.params # "absent" THEN "decode" ELSE "call")
    /\ UNCHANGED <<dsp, msg, replies, calls>>
    /\ UNCHANGED genVars /\ UNCHANGED resolveVars

\* if err := json.Unmarshal(req.Params(), &params); err != nil
Decode ==
    /\ dpc = "decode"
    /\ LET bareType == IF frame.arm > 0 THEN dsp[frame.arm].bareType ELSE "any"
       IN  IF UnmarshalOK(msg.params, bareType)
           THEN /\ dpc' = "call"
                /\ frame' = [frame EXCEPT !.params = DecodedValue(msg.params)]
           ELSE /\ dpc' = "parseError"
                /\ frame' = [frame EXCEPT !.decodeErr = UnmarshalError(msg.params)]
    /\ UNCHANGED <<dsp, msg, replies, calls>>
    /\ UNCHANGED genVars /\ UNCHANGED resolveVars

\* return replyParseError(ctx, reply, err)
ReplyParseError ==
    /\ dpc = "parseError"
    /\ replies' = Append(replies, replyParseError(frame.decodeErr))
    /\ dpc' = "returned"
    /\ UNCHANGED <<dsp, msg, frame, calls>>
    /\ UNCHANGED genVars /\ UNCHANGED resolveVars

\* server.<goName>(ctx[, &params]), or server.Request(ctx, req.Method(),
\* params) in the default arm; a notification arm returns what it returns.
Call ==
    /\ dpc = "call"
    /\ calls' = Append(calls,
                       IF frame.arm > 0
                       THEN [goName |-> dsp[frame.arm].goName,
                             withParams |-> dsp[frame.arm].withParams,
                             args |-> IF dsp[frame.arm].withParams
                                      THEN <<frame.params>> ELSE <<>>]
                       ELSE [goName |-> "Request", withParams |-> TRUE,
                             args |-> <<msg.method, frame.params>>])
    /\ \E result \in (IF frame.arm > 0 /\ dsp[frame.arm].reply # "result"
                      THEN {"<nil>"} ELSE {"<nil>", "value"}),
          err \in {"<nil>", "handler error"} :
          frame' = [frame EXCEPT !.result = result, !.err = err]
    /\ dpc' = IF frame.arm > 0 /\ dsp[frame.arm].reply = "none" THEN "returned" ELSE "reply"
    /\ UNCHANGED <<dsp, msg, replies>>
    /\ UNCHANGED genVars /\ UNCHANGED resolveVars

\* The arguments of reply, had the arm passed a nil error.
ReplyArgs_NilError(how, result, err) ==
    [result |-> IF how = "nil" THEN "nil" ELSE result, err |-> "<nil>"]

\* The arguments of reply: reply(ctx, result, err) or reply(ctx, nil, err).
ReplyArgs(how, result, err) ==
    [result |-> IF how = "nil" THEN "nil" ELSE result, err |-> err]

\* return reply(ctx, result, err), reply(ctx, nil, err) or reply(ctx, resp, err)
Reply ==
    /\ dpc = "reply"
    /\ replies' = Append(replies,
                         ReplyArgs(IF frame.arm > 0 THEN dsp[frame.arm].reply ELSE "result",
                                   frame.result, frame.err))
    /\ dpc' = "returned"
    /\ UNCHANGED <<dsp, msg, frame, calls>>
    /\ UNCHANGED genVars /\ UNCHANGED resolveVars

InitDispatch ==
    /\ \E m \in SignatureModels :
          /\ g = generateServer(NewGenerator(m)).g
          /\ server = generateServer(NewGenerator(m)).buf
    /\ dsp = server.cases
    /\ pc = "serverDone" /\ runs = 1
    /\ types = <<>> /\ client = EmptyClient
    /\ rTyp = NilType /\ rOut = "<none>"
    /\ msg = NoMsg /\ dpc = "idle" /\ frame = NoFrame
    /\ replies = <<>> /\ calls = <<>>

NextDispatch == Receive \/ Switch \/ Decode \/ ReplyParseError \/ Call \/ Reply

SpecDispatch == InitDispatch /\ [][NextDispatch]_vars

----------------------------------------------------------------------------
(* The clientDispatcher methods, as generateClient emits them, run against  *)
(* a connection whose Call or Notify succeeds or fails.                     *)

CallErrors == {"<nil>", "call error"}

\* The first value of a `return a, b` line.
FirstReturned(line) ==
    CASE line \in {"nil, err"} -> "nil"
      [] line \in {"zero, err"} -> "zero"
      [] line \in {"&result, nil", "&result, err"} -> "&result"
      [] line \in {"result, nil", "result, err"} -> "result"
      [] OTHER -> "<none>"

\* What the method body returns once c.conn.Call or c.conn.Notify gave err.
ForwarderReturn(fw, err) ==
    IF fw.onError = "err" THEN [result |-> "<none>", err |-> err]
    ELSE IF err # "<nil>" THEN [result |-> FirstReturned(fw.onError), err |-> err]
    ELSE [result |-> FirstReturned(fw.onSuccess), err |-> "<nil>"]

\* A caller invokes method k of the clientDispatcher.
Invoke ==
    /\ dpc \in {"idle", "returned"}
    /\ \E k \in 1..Len(client.forwarders) :
          /\ frame' = [NoFrame EXCEPT !.arm = k]
          /\ msg' = [method |-> client.forwarders[k].method,
                     params |-> IF client.forwarders[k].sendsParams THEN "valid" ELSE "absent"]
    /\ replies' = <<>> /\ calls' = <<>>
    /\ dpc' = "conn"
    /\ UNCHANGED dsp
    /\ UNCHANGED genVars /\ UNCHANGED resolveVars

\* c.conn.Call(ctx, method, params|nil, &result|nil) or c.conn.Notify(ctx,
\* method, params|nil) runs and gives its error.
ConnReturns ==
    /\ dpc = "conn"
    /\ calls' = Append(calls,
                       [goName |-> client.forwarders[frame.arm].via,
                        withParams |-> client.forwarders[frame.arm].sendsParams,
                        args |-> <<msg.method,
                                   IF client.forwarders[frame.arm].sendsParams
                                   THEN "params" ELSE "nil">>])
    /\ \E err \in CallErrors :
          frame' = [frame EXCEPT !.err = err,
                                 !.result = IF err = "<nil>" THEN "value" ELSE "<nil>"]
    /\ dpc' = "return"
    /\ UNCHANGED <<dsp, msg, replies>>
    /\ UNCHANGED genVars /\ UNCHANGED resolveVars

\* The return statement the body reaches.
Return ==
    /\ dpc = "return"
    /\ replies' = Append(replies, ForwarderReturn(client.forwarders[frame.arm], frame.err))
    /\ dpc' = "returned"
    /\ UNCHANGED <<dsp, msg, frame, calls>>
    /\ UNCHANGED genVars /\ UNCHANGED resolveVars

InitForward ==
    /\ \E m \in SignatureModels :
          /\ g = generateClient(NewGenerator(m)).g
          /\ client = generateClient(NewGenerator(m)).buf
    /\ dsp = <<>>
    /\ pc = "done" /\ runs = 1
    /\ types = <<>> /\ server = EmptyServer
    /\ rTyp = NilType /\ rOut = "<none>"
    /\ msg = NoMsg /\ dpc = "idle" /\ frame = NoFrame
    /\ replies = <<>> /\ calls = <<>>

NextForward == Invoke \/ ConnReturns \/ Return

SpecForward == InitForward /\ [][NextForward]_vars

----------------------------------------------------------------------------
(* Claims about the property collector. *)

\* The properties of props whose name no earlier property of props has.
FirstOccurrences(props) ==
    LET keep == {i \in 1..Len(props) : \A j \in 1..(i - 1) : props[j].name # props[i].name}
        F[i \in 0..Len(props)] ==
            IF i = 0 THEN <<>>
            ELSE IF i \in keep THEN Append(F[i - 1], props[i]) ELSE F[i - 1]
    IN  F[Len(props)]

\* Own properties, then what each extends entry gives in turn, then each
\* mixins entry, first occurrences only; a structure met again on the way down
\* from itself gives nothing.
RECURSIVE InheritedList(_, _, _)
RECURSIVE InheritedFrom(_, _, _)
InheritedFrom(structs, bases, path) ==
    IF bases = <<>> THEN <<>>
    ELSE (IF Head(bases).kind = "reference" /\ Head(bases).name \in DOMAIN structs
          THEN InheritedList(structs, structs[Head(bases).name], path)
          ELSE <<>>)
         \o InheritedFrom(structs, Tail(bases), path)

InheritedList(structs, s, path) ==
    IF s.name \in path THEN <<>>
    ELSE FirstOccurrences(s.properties
                          \o InheritedFrom(structs, s.extends, path \cup {s.name})
                          \o InheritedFrom(structs, s.mixins, path \cup {s.name}))

\* What a property looks like as an emitted field: tag name, omitempty, type.
FieldView(fields) ==
    [i \in 1..Len(fields) |-> <<fields[i].tag.json, fields[i].tag.omitempty, fields[i].type>>]

PropView(props) ==
    [i \in 1..Len(props) |->
        <<props[i].name, props[i].optional,
          optionalType(resolveGoType(props[i].type, g).s, props[i].optional)>>]

StructDecls(name) ==
    SelectSeq(types, LAMBDA d : d.decl = "struct" /\ d.name = name)

NotProposed(props) == SelectSeq(props, LAMBDA q : ~q.proposed)

\* C2 as stated: collectProperties gives own, extends, mixins, first
\* occurrence per name, and the emitted field list of a non-proposed
\* structure is that whole list.
C2_EmittedIsCollected ==
    \A i \in 1..Len(g.Model.structures) :
        LET s == g.Model.structures[i]
            want == InheritedList(g.structs, s, {})
        IN  /\ collectProperties(g, s) = want
            /\ (pc = "typesDone" /\ ~s.proposed) =>
                  /\ Len(StructDecls(s.name)) = 1
                  /\ FieldView(StructDecls(s.name)[1].fields) = PropView(want)

\* C2 amended: collectProperties gives own, extends, mixins, first occurrence
\* per name, and the emitted field list of a non-proposed structure is that
\* list without its proposed properties.
C2_EmittedIsCollectedNotProposed ==
    \A i \in 1..Len(g.Model.structures) :
        LET s == g.Model.structures[i]
            want == InheritedList(g.structs, s, {})
        IN  /\ collectProperties(g, s) = want
            /\ (pc = "typesDone" /\ ~s.proposed) =>
                  /\ Len(StructDecls(s.name)) = 1
                  /\ FieldView(StructDecls(s.name)[1].fields) = PropView(NotProposed(want))

\* A extends B and mixes in C, its own property a is proposed: the emitted
\* fields are x (own), b (from B, not C's), c (from C, the first one).
C2_Witness ==
    /\ pc = "typesDone"
    /\ g.structs["A"].extends = <<RefT("B")>>
    /\ g.structs["A"].mixins = <<BaseT("string"), RefT("C")>>
    /\ g.structs["A"].properties[2].proposed
    /\ FieldView(StructDecls("A")[1].fields)
           = << <<"x", FALSE, "string">>, <<"b", FALSE, "bool">>,
                <<"c", FALSE, "DocumentURI">> >>

----------------------------------------------------------------------------
(* Claims about the type resolver. *)

IsNullableOf(typ) ==
    /\ typ.kind = "or"
    /\ Len(SelectSeq(typ.items, LAMBDA item : ~IsNullType(item))) = 1
    /\ Len(typ.items) > 1

MemberOf(typ) == SelectSeq(typ.items, LAMBDA item : ~IsNullType(item))[1]

IsPointerType(t) == HasPrefix(t, "*")
IsListType(t) == HasPrefix(t, "[]")
IsMapType(t) == HasPrefix(t, "map[")

\* C3: a union of one non-null member T and null resolves to "*" and T's
\* type when T's type is not nil-representable, and to T's type bare when
\* that is a list, a map or any.
C3_NullableLifting ==
    (rOut # "<none>" /\ rTyp # NilType /\ IsNullableOf(rTyp)) =>
        LET t == resolveGoType(MemberOf(rTyp), NewGenerator(EmptyModel)).s
        IN  /\ (~IsPointerType(t) /\ ~IsListType(t) /\ ~IsMapType(t) /\ t # "any")
                   => rOut = "*" \o t
            /\ (IsListType(t) \/ IsMapType(t) \/ t = "any") => rOut = t

\* A map of integers, or null: the map is left bare (a lone Position, or
\* null, would be lifted to *Position).
C3_Witness ==
    /\ rTyp = OrT(<<MapT(BaseT("string"), BaseT("integer")), BaseT("null")>>)
    /\ rOut = "map[string]int32"

----------------------------------------------------------------------------
(* Claims about the proposed flag. *)

FieldNames(decl) == {decl.fields[i].tag.json : i \in 1..Len(decl.fields)}

Decls(kind, name) == SelectSeq(types, LAMBDA d : d.decl = kind /\ d.name = name)

ConstNames(decl) == {decl.consts[i].name : i \in 1..Len(decl.consts)}

\* The method strings the server and client outputs mention: constant
\* values, interface lines, dispatch cases, forwarders.
EmittedMethods ==
    {server.consts[i].value : i \in 1..Len(server.consts)}
    \cup {server.iface[i].method : i \in 1..Len(server.iface)}
    \cup {server.cases[i].method : i \in 1..Len(server.cases)}
    \cup {client.iface[i].method : i \in 1..Len(client.iface)}
    \cup {client.forwarders[i].method : i \in 1..Len(client.forwarders)}

\* C1: nothing is emitted for a proposed item: no declaration for a proposed
\* structure, enumeration or alias, no field for a proposed property (own,
\* inherited, or of a promoted literal), no constant for a proposed
\* enumeration value, and no method constant, interface line, dispatch case
\* or forwarder for a proposed request or notification.
C1_NoProposedOutput ==
    /\ \A i \in 1..Len(g.Model.structures) :
          LET s == g.Model.structures[i]
              props == collectProperties(g, s)
          IN  /\ s.proposed => Decls("struct", s.name) = <<>>
              /\ \A k \in 1..Len(Decls("struct", s.name)), j \in 1..Len(props) :
                    props[j].proposed =>
                        props[j].name \notin FieldNames(Decls("struct", s.name)[k])
    /\ \A n \in DOMAIN g.namedLiterals :
          LET props == g.namedLiterals[n].properties
          IN  \A k \in 1..Len(Decls("struct", n)), j \in 1..Len(props) :
                  props[j].proposed =>
                      props[j].name \notin FieldNames(Decls("struct", n)[k])
    /\ \A i \in 1..Len(g.Model.enumerations) :
          LET e == g.Model.enumerations[i]
          IN  /\ e.proposed => Decls("enum", e.name) = <<>>
              /\ \A k \in 1..Len(Decls("enum", e.name)), j \in 1..Len(e.values) :
                    e.values[j].proposed =>
                        GoEnumValueName(e.name, e.values[j].name)
                            \notin ConstNames(Decls("enum", e.name)[k])
    /\ \A i \in 1..Len(g.Model.typeAliases) :
          g.Model.typeAliases[i].proposed =>
              Decls("alias", g.Model.typeAliases[i].name) = <<>>
    /\ \A i \in 1..Len(g.Model.requests) :
          g.Model.requests[i].proposed =>
              g.Model.requests[i].method \notin EmittedMethods
    /\ \A i \in 1..Len(g.Model.notifications) :
          g.Model.notifications[i].proposed =>
              g.Model.notifications[i].method \notin EmittedMethods

\* A finished run on a model with a proposed item of every kind: what is left
\* is Params (with its literal), Kind and the shutdown request.
C1_Witness ==
    /\ pc = "done"
    /\ g.Model = ProposedModel({"Params.uri", "Extra", "literal.n", "Kind.One", "Id",
                                "hover", "logMessage"})
    /\ [i \in 1..Len(types) |-> types[i].name] = <<"Params", "Kind", "Literal1">>
    /\ FieldNames(types[1]) = {"options", "tag"}
    /\ FieldNames(types[3]) = {"m"}
    /\ ConstNames(types[2]) = {"KindTwo"}
    /\ EmittedMethods = {"shutdown"}

----------------------------------------------------------------------------
(* Claims about method names and method constants. *)

Ifaces == {server.iface, client.iface}

Pinned(method) == method \in DOMAIN methodNameOverrides

\* The name a method has when the counting loop runs.
NameAfterOverrides(method) ==
    IF Pinned(method) THEN methodNameOverrides[method] ELSE GoMethodName(method)

\* C4 as stated: of two methods of one interface with equal short names,
\* not both pinned, each non-pinned one is emitted under its full name.
C4_ShortNameCollisionsRenamed ==
    \A iface \in Ifaces : \A i, j \in 1..Len(iface) :
        (/\ i # j
         /\ GoMethodName(iface[i].method) = GoMethodName(iface[j].method)
         /\ ~Pinned(iface[i].method))
        => iface[i].goName = GoMethodNameFull(iface[i].method)

\* C4 amended: of two methods of one interface whose names after the
\* override pass are equal (the override name of a pinned method, the short
\* name of any other), not both pinned, each non-pinned one is emitted under
\* its full name.
C4_OverriddenNameCollisionsRenamed ==
    \A iface \in Ifaces : \A i, j \in 1..Len(iface) :
        (/\ i # j
         /\ NameAfterOverrides(iface[i].method) = NameAfterOverrides(iface[j].method)
         /\ ~Pinned(iface[i].method))
        => iface[i].goName = GoMethodNameFull(iface[i].method)

\* The pinned textDocument/diagnostic keeps Diagnostic, workspace/diagnostic
\* collides with it and gets its full name; the refresh request collides with
\* nothing and keeps its short name.
C4_Witness ==
    /\ pc = "serverDone"
    /\ [i \in 1..Len(server.iface) |-> <<server.iface[i].method, server.iface[i].goName>>]
          = << <<"textDocument/diagnostic", "Diagnostic">>,
               <<"workspace/diagnostic", "WorkspaceDiagnostic">>,
               <<"workspace/inlayHint/refresh", "Refresh">> >>

\* C5: the Go method names of one interface are pairwise distinct.
C5_GoNamesDistinct ==
    \A iface \in Ifaces : \A i, j \in 1..Len(iface) :
        i # j => iface[i].goName # iface[j].goName

\* C6: every method of the server interface and of the client interface has
\* its constant in the server output: named Method + full name, valued with
\* the method string.
C6_ConstantForEveryMethod ==
    \A iface \in Ifaces : \A i \in 1..Len(iface) :
        \E k \in 1..Len(server.consts) :
            /\ server.consts[k].name = methodConstName(iface[i].method)
            /\ server.consts[k].value = iface[i].method

----------------------------------------------------------------------------
(* Claims about literal promotion. *)

\* The names under which the literal with identity id is registered.
NamesOf(id) == {n \in DOMAIN g.namedLiterals : g.namedLiterals[n].id = id}

PromotedIds == {g.namedLiterals[n].id : n \in DOMAIN g.namedLiterals}

Declared(name) == Decls("struct", name) # <<>>

\* C7: at the end of the first run, the names handed out are Literal1 to
\* Literal<counter>, every promoted literal has one name, and one declaration
\* in the types output.
C7_LiteralNamedAndDeclaredOnce ==
    (pc = "done" /\ runs = 1) =>
        /\ DOMAIN g.namedLiterals
              = {"Literal" \o ToString(k) : k \in 1..g.literalCounter}
        /\ \A id \in PromotedIds :
              /\ Cardinality(NamesOf(id)) = 1
              /\ Cardinality({i \in 1..Len(types) :
                                 types[i].decl = "struct" /\ types[i].name \in NamesOf(id)}) = 1

\* The Literal<N> names the outputs use as a field type, a params type or a
\* result type.
UsedLiteralNames ==
    {n \in DOMAIN g.namedLiterals :
        \/ \E i \in 1..Len(types) :
              /\ types[i].decl = "struct"
              /\ \E k \in 1..Len(types[i].fields) :
                    TrimPrefix(types[i].fields[k].type, "*") = n
        \/ \E iface \in Ifaces : \E i \in 1..Len(iface) :
              \/ TrimPrefix(iface[i].paramsType, "*") = n
              \/ TrimPrefix(iface[i].resultType, "*") = n}

\* C8: when a run ends, every Literal<N> name the outputs use has a struct
\* declaration in the types output.
C8_UsedLiteralsDeclared ==
    pc = "done" => \A n \in UsedLiteralNames : Declared(n)

----------------------------------------------------------------------------
(* Claims about serverDispatch. *)

\* The arm the message is handled by is a request arm: a request case or
\* the default arm.
HandledAsRequest == frame.arm = 0 \/ dsp[frame.arm].reply # "none"

\* C9: when serverDispatch has returned, reply was invoked once for a
\* message handled as a request and not at all for one handled as a
\* notification; it is never invoked more often than that on the way.
C9_OneReplyOrNone ==
    dpc \in {"decode", "parseError", "call", "reply", "returned"} =>
        IF HandledAsRequest
        THEN Len(replies) <= 1 /\ (dpc = "returned" => Len(replies) = 1)
        ELSE Len(replies) = 0

\* The message went to a case arm that declares a params type and its
\* params did not decode.
DecodeFailedInCase ==
    /\ dpc \in {"parseError", "returned"}
    /\ frame.arm > 0
    /\ dsp[frame.arm].decode
    /\ frame.decodeErr # "<nil>"

\* C10: a message whose params do not decode in a case arm with a params
\* type never reaches the server method, and when serverDispatch has returned,
\* reply was invoked once, with a nil result and an "invalid params" error
\* wrapping the decode error.  Params that are absent or no JSON never decode.
C10_ParseErrorReply ==
    /\ DecodeFailedInCase =>
          /\ calls = <<>>
          /\ dpc = "returned" =>
                replies = <<[result |-> "nil",
                             err |-> [msg |-> "invalid params",
                                      wraps |-> UnmarshalError(msg.params)]]>>
    /\ (/\ dpc = "returned" /\ frame.arm > 0 /\ dsp[frame.arm].decode
        /\ msg.params \in {"absent", "invalid"})
       => DecodeFailedInCase

\* The hover request, which takes *HoverParams, with params that are no JSON:
\* one parse-error reply, Hover not called.
C10_Witness ==
    /\ dpc = "returned"
    /\ msg = [method |-> "textDocument/hover", params |-> "invalid"]
    /\ frame.arm > 0
    /\ dsp[frame.arm].goName = "Hover" /\ dsp[frame.arm].bareType = "HoverParams"
    /\ dsp[frame.arm].reply = "result"
    /\ Len(replies) = 1 /\ replies[1].err.wraps = "invalid character"
    /\ calls = <<>>

----------------------------------------------------------------------------
(* Claims about the default arm and about what reply is given. *)

ServerMethodStrings == {server.iface[i].method : i \in 1..Len(server.iface)}

\* What the catch-all is to be given for the params of a message.
ExpectedParams(kind) ==
    CASE kind \in {"absent", "null"} -> "nil"
      [] kind = "valid" -> "object"
      [] kind = "mismatch" -> "string"
      [] OTHER -> "undecodable"

UnknownMethodReturned == dpc = "returned" /\ msg.method \notin ServerMethodStrings

\* C11 as stated: every message with a method string outside the server set
\* gets one call of Request with the method string and the decoded params,
\* whose result and error go to reply, and no other call.
C11_UnknownMethodToRequest ==
    UnknownMethodReturned =>
        /\ Len(calls) = 1
        /\ calls[1].goName = "Request"
        /\ calls[1].args[1] = msg.method
        /\ replies = <<[result |-> frame.result, err |-> frame.err]>>

\* C11 amended: a message with a method string outside the server set whose
\* params are absent or decode gets one call of Request with the method
\* string and the decoded params (nil when absent), whose result and error
\* go to reply, and no other call; one whose params are present and do not
\* decode gets no call and one parse-error reply.
C11_UnknownMethodDecodedToRequest ==
    UnknownMethodReturned =>
        IF msg.params # "invalid"
        THEN /\ calls = <<[goName |-> "Request", withParams |-> TRUE,
                           args |-> <<msg.method, ExpectedParams(msg.params)>>]>>
             /\ replies = <<[result |-> frame.result, err |-> frame.err]>>
        ELSE /\ calls = <<>>
             /\ Len(replies) = 1
             /\ replies[1].result = "nil"
             /\ replies[1].err.msg = "invalid params"

\* custom/method with an object for params, Request returning a value and an
\* error: both are what reply is given.
C11_Witness ==
    /\ dpc = "returned"
    /\ msg = [method |-> "custom/method", params |-> "valid"]
    /\ calls = <<[goName |-> "Request", withParams |-> TRUE,
                  args |-> <<"custom/method", "object">>]>>
    /\ replies = <<[result |-> "value", err |-> "handler error"]>>

\* The request of the model with the method string of the message, when it
\* is one the server set holds.
ServedRequests ==
    {i \in 1..Len(g.Model.requests) :
        /\ g.Model.requests[i].method = msg.method
        /\ ~g.Model.requests[i].proposed
        /\ IsServerMethod(g.Model.requests[i].messageDirection)}

\* C12: when serverDispatch has returned from a request of the server set
\* whose params decoded (or that takes none), the interface method was called
\* once and reply was invoked once with the error the method returned, and
\* with the result it returned, or nil when the request has no result type.
C12_ResultAndErrorVerbatim ==
    (dpc = "returned" /\ ServedRequests # {} /\ frame.decodeErr = "<nil>") =>
        \A i \in ServedRequests :
            /\ Len(calls) = 1
            /\ calls[1].goName = GoMethodName(msg.method)
            /\ replies = <<[result |-> IF g.Model.requests[i].result = NilType
                                       THEN "nil" ELSE frame.result,
                            err |-> frame.err]>>

\* Hover with decodable params returns a value and an error: reply gets both.
C12_Witness ==
    /\ dpc = "returned"
    /\ msg = [method |-> "textDocument/hover", params |-> "valid"]
    /\ ServedRequests # {}
    /\ calls = <<[goName |-> "Hover", withParams |-> TRUE, args |-> <<"object">>]>>
    /\ frame.result = "value" /\ frame.err = "handler error"
    /\ replies = <<[result |-> "value", err |-> "handler error"]>>

----------------------------------------------------------------------------
(* Claims about termination of the property collector. *)

RECURSIVE SumLen(_)
SumLen(structures) ==
    IF structures = <<>> THEN 0
    ELSE Len(Head(structures).properties) + SumLen(Tail(structures))

\* C13: for every structure of every model, cyclic ones included,
\* collectProperties returns a list no longer than the properties the model
\* holds, with no name twice, that starts with the structure's own
\* properties; the structures it entered are structures of the model, each
\* entered at most once; entering a visited structure gives the empty list.
C13_CollectTerminates ==
    \A i \in 1..Len(g.Model.structures) :
        LET s == g.Model.structures[i]
            all == collectPropertiesImpl(g, s, {})
            got == collectProperties(g, s)
            own == FirstOccurrences(s.properties)
        IN  /\ Len(got) <= SumLen(g.Model.structures)
            /\ \A j, k \in 1..Len(got) : j # k => got[j].name # got[k].name
            /\ Len(got) >= Len(own) /\ SubSeq(got, 1, Len(own)) = own
            /\ all.visited \subseteq DOMAIN g.structs
            /\ s.name \in all.visited
            /\ collectPropertiesImpl(g, s, all.visited)
                  = [result |-> <<>>, visited |-> all.visited]

\* A extends itself, B extends C and C mixes in B: B is emitted with its own
\* x and b, then C's c.
C13_Witness ==
    /\ pc = "typesDone"
    /\ RefT("A") \in Range(g.structs["A"].extends)
    /\ g.structs["B"].extends = <<RefT("C")>>
    /\ g.structs["C"].mixins = <<RefT("B")>>
    /\ ~g.structs["B"].properties[1].proposed
    /\ [k \in 1..Len(StructDecls("B")[1].fields) |-> StructDecls("B")[1].fields[k].tag.json]
          = <<"x", "b", "c">>
    /\ collectPropertiesImpl(g, g.structs["B"], {}).visited = {"B", "C"}

----------------------------------------------------------------------------
(* Claims about determinism and ordering. *)

\* The three outputs of a Generate call on a new Generator for the model,
\* the literal names ranged over in one fixed order.
FreshTypes == generateTypes(NewGenerator(g.Model), "forward")

FreshServer == generateServer(FreshTypes.g)

FreshClient == generateClient(FreshServer.g)

\* C14: whatever order the map of promoted literals is ranged over in, the
\* outputs of the first Generate call on a new Generator are those of any
\* other such call on the same model.
C14_Deterministic ==
    runs = 1 =>
        /\ pc \in {"typesDone", "serverDone", "done"} => types = FreshTypes.buf
        /\ pc = "typesDone" => g = FreshTypes.g
        /\ pc \in {"serverDone", "done"} => server = FreshServer.buf
        /\ pc = "serverDone" => g = FreshServer.g
        /\ pc = "done" => client = FreshClient.buf /\ g = FreshClient.g

\* A finished run on the model with the most literals: four are declared,
\* in the order of their names.
C14_Witness ==
    /\ pc = "done" /\ runs = 1
    /\ g.Model = LiteralModel(TRUE, FALSE, "both", TRUE)
    /\ [i \in 1..Len(types) |-> types[i].name]
          = <<"Base", "A", "B", "Opts", "Literal1", "Literal2", "Literal3", "Literal4">>
    /\ Len(client.forwarders) = 1

----------------------------------------------------------------------------
(* C15: collectServerMethods and collectClientMethods return their methods  *)
(* in non-decreasing order of the raw method string, and for a model with   *)
(* distinct method strings the (method, Go name) pairs they return are the  *)
(* pairs returned for the same requests and the same notifications given in *)
(* sorted order, so they are the same for every order of the input.         *)

MethodPairs(iface) == [i \in 1..Len(iface) |-> <<iface[i].method, iface[i].goName>>]

NonDecreasing(iface) ==
    \A i, j \in 1..Len(iface) : i < j => ~StrLess(iface[j].method, iface[i].method)

InputMethods == [i \in 1..Len(g.Model.requests) |-> g.Model.requests[i].method]
                    \o [i \in 1..Len(g.Model.notifications) |->
                            g.Model.notifications[i].method]

DistinctMethodStrings ==
    \A i, j \in 1..Len(InputMethods) : i # j => InputMethods[i] # InputMethods[j]

\* The model of the run with each input list put in one fixed order.
ReorderedGenerator ==
    NewGenerator([g.Model EXCEPT !.requests = SortMethods(@),
                                 !.notifications = SortMethods(@)])

C15_SortedAndOrderIndependent ==
    /\ \A iface \in Ifaces : NonDecreasing(iface)
    /\ (DistinctMethodStrings /\ pc = "serverDone") =>
           MethodPairs(server.iface)
               = MethodPairs(collectServerMethods(ReorderedGenerator).methods)
    /\ (DistinctMethodStrings /\ pc = "done") =>
           MethodPairs(client.iface)
               = MethodPairs(collectClientMethods(ReorderedGenerator).methods)

\* Three methods given in decreasing order, the last one as a notification.
C15_Witness ==
    /\ pc = "done"
    /\ InputMethods = <<"workspace/diagnostic", "workspace/codeLens/refresh", "$/progress">>
    /\ Len(g.Model.notifications) = 1
    /\ MethodPairs(client.iface)
          = << <<"$/progress", "Progress">>,
               <<"workspace/codeLens/refresh", "Refresh">>,
               <<"workspace/diagnostic", "Diagnostic">> >>

----------------------------------------------------------------------------
(* C16: a request or notification that is not proposed is in the server     *)
(* method set exactly when its direction is clientToServer or both, and in  *)
(* the client method set exactly when its direction is serverToClient or    *)
(* both; with any other direction string it is in neither set.              *)

Inputs == g.Model.requests \o g.Model.notifications

\* How many inputs with the method string m are not proposed and have one
\* of the directions dirs.
InputCount(m, dirs) ==
    Cardinality({i \in 1..Len(Inputs) :
        /\ Inputs[i].method = m
        /\ ~Inputs[i].proposed
        /\ Inputs[i].messageDirection \in dirs})

IfaceCount(iface, m) == Cardinality({i \in 1..Len(iface) : iface[i].method = m})

AllMethodStrings ==
    {Inputs[i].method : i \in 1..Len(Inputs)}
        \cup {server.iface[i].method : i \in 1..Len(server.iface)}
        \cup {client.iface[i].method : i \in 1..Len(client.iface)}

C16_SetsFollowDirection ==
    /\ pc \in {"serverDone", "done"} =>
           \A m \in AllMethodStrings :
               IfaceCount(server.iface, m) = InputCount(m, {"clientToServer", "both"})
    /\ pc = "done" =>
           \A m \in AllMethodStrings :
               IfaceCount(client.iface, m) = InputCount(m, {"serverToClient", "both"})

\* A request of direction both in both sets, a notification of an unknown
\* direction in neither.
C16_Witness ==
    /\ pc = "done"
    /\ \E i \in 1..Len(Inputs) :
           /\ Inputs[i].method = "textDocument/hover"
           /\ Inputs[i].messageDirection = "both"
    /\ \E i \in 1..Len(Inputs) :
           /\ Inputs[i].method = "textDocument/didOpen"
           /\ Inputs[i].messageDirection = "sideways"
    /\ MethodPairs(server.iface) = << <<"textDocument/hover", "Hover">> >>
    /\ MethodPairs(client.iface) = << <<"textDocument/hover", "Hover">> >>

----------------------------------------------------------------------------
(* C17: every method signature has one of four shapes, chosen only by       *)
(* whether the method has params and whether it has a result:               *)
(* Name(ctx, params P) (R, error), Name(ctx, params P) error,               *)
(* Name(ctx) (R, error), Name(ctx) error, where Name is the Go name of the  *)
(* method; a notification has no result type and so one of the two shapes   *)
(* that return only error.                                                  *)

IsNotification(i) == i > Len(g.Model.requests)

HasParams(i) == Inputs[i].params # NilType

HasResult(i) == ~IsNotification(i) /\ Inputs[i].result # NilType

ShapeOf(line, hasParams, hasResult) ==
    line.goName
        \o (IF hasParams THEN "(ctx context.Context, params " \o line.paramsType \o ")"
                         ELSE "(ctx context.Context)")
        \o (IF hasResult THEN " (" \o line.resultType \o ", error)" ELSE " error")

C17_FourShapes ==
    DistinctMethodStrings =>
        \A iface \in Ifaces : \A k \in 1..Len(iface) : \A i \in 1..Len(Inputs) :
            Inputs[i].method = iface[k].method =>
                /\ iface[k].signature = ShapeOf(iface[k], HasParams(i), HasResult(i))
                /\ (iface[k].paramsType # "") = HasParams(i)
                /\ (iface[k].resultType # "") = HasResult(i)

\* A request with params and a result next to a notification without params.
C17_Witness ==
    /\ pc = "done"
    /\ {server.iface[k].signature : k \in 1..Len(server.iface)}
          = {"Hover(ctx context.Context, params *HoverParams) ([]Hover, error)",
             "DidOpen(ctx context.Context) error"}
    /\ \E i \in 1..Len(Inputs) : IsNotification(i) /\ ~HasParams(i)

----------------------------------------------------------------------------
(* C18: resolveMethodType puts a pointer in front of the resolved type      *)
(* exactly when the resolved type is the name of a structure of the index;  *)
(* a type that resolves to an enumeration, a type alias, a base type, a     *)
(* list, a map or any is rendered as resolved, and an absent type gives no  *)
(* params or result type.                                                   *)

NamesIn(xs) == {xs[i].name : i \in 1..Len(xs)}

\* The resolved type of t where resolving promotes no literal, so that it
\* does not depend on the literals promoted before.
ResolvedPure(t) == resolveGoType(t, NewGenerator(g.Model)).g = NewGenerator(g.Model)

Resolved(t) == resolveGoType(t, NewGenerator(g.Model)).s

BaseGoTypes == {"string", "int32", "uint32", "float64", "bool", "DocumentURI", "URI"}

RenderedAs(t, rendered) ==
    IF t = NilType THEN rendered = ""
    ELSE ResolvedPure(t) =>
        /\ (rendered = "*" \o Resolved(t)) = (Resolved(t) \in NamesIn(g.Model.structures))
        /\ rendered \in {Resolved(t), "*" \o Resolved(t)}
        /\ (\/ Resolved(t) \in NamesIn(g.Model.enumerations)
            \/ Resolved(t) \in NamesIn(g.Model.typeAliases)
            \/ Resolved(t) \in BaseGoTypes
            \/ IsListType(Resolved(t)) \/ IsMapType(Resolved(t))
            \/ Resolved(t) = "any") => rendered = Resolved(t)

C18_PointerForStructures ==
    DistinctMethodStrings =>
        \A iface \in Ifaces : \A k \in 1..Len(iface) : \A i \in 1..Len(Inputs) :
            Inputs[i].method = iface[k].method =>
                /\ RenderedAs(Inputs[i].params, iface[k].paramsType)
                /\ IF IsNotification(i) THEN iface[k].resultType = ""
                   ELSE RenderedAs(Inputs[i].result, iface[k].resultType)

\* A structure as params gets the pointer, an enumeration as result does not.
C18_Witness ==
    /\ pc = "serverDone"
    /\ \E k \in 1..Len(server.iface) :
           /\ server.iface[k].method = "textDocument/hover"
           /\ server.iface[k].paramsType = "*HoverParams"
           /\ server.iface[k].resultType = "MarkupKind"
    /\ \E i \in 1..Len(Inputs) :
           /\ Inputs[i].params = RefT("HoverParams")
           /\ Inputs[i].result = RefT("MarkupKind")

----------------------------------------------------------------------------
(* C19: the type of every emitted struct field is the resolved type of the  *)
(* property with one pointer in front exactly when the property is optional *)
(* and the resolved type is no pointer, list, map or any, so no field type  *)
(* starts with two pointers; the tag of the field holds the LSP name of the *)
(* property and has omitempty exactly when the property is optional.        *)

NilRepresentable(t) == IsPointerType(t) \/ IsListType(t) \/ IsMapType(t) \/ t = "any"

FieldAsClaimed(p, f) ==
    /\ f.tag.json = p.name
    /\ f.tag.omitempty = p.optional
    /\ ResolvedPure(p.type) =>
           f.type = IF p.optional /\ ~NilRepresentable(Resolved(p.type))
                    THEN "*" \o Resolved(p.type)
                    ELSE Resolved(p.type)

C19_OptionalFieldTypes ==
    \A k \in 1..Len(types) :
        types[k].decl = "struct" =>
            /\ \A j \in 1..Len(types[k].fields) : ~HasPrefix(types[k].fields[j].type, "**")
            /\ \A i \in 1..Len(g.Model.structures) :
                   (g.Model.structures[i].name = types[k].name
                        /\ ~g.Model.structures[i].proposed) =>
                       LET props == NotProposed(collectProperties(NewGenerator(g.Model),
                                                                  g.Model.structures[i]))
                       IN  /\ Len(types[k].fields) = Len(props)
                           /\ \A j \in 1..Len(props) :
                                  FieldAsClaimed(props[j], types[k].fields[j])

\* An optional property of a nullable structure type: one pointer, omitempty.
C19_Witness ==
    /\ pc = "typesDone"
    /\ \E i \in 1..Len(g.Model.structures) :
           g.Model.structures[i].properties
               = <<Prop("textDocument", OrT(<<RefT("Position"), BaseT("null")>>),
                        TRUE, FALSE)>>
    /\ \E k \in 1..Len(types) :
           /\ types[k].decl = "struct" /\ types[k].name = "Location"
           /\ types[k].fields = <<[name |-> "TextDocument", type |-> "*Position",
                                   tag |-> [json |-> "textDocument", omitempty |-> TRUE]]>>

----------------------------------------------------------------------------
(* C20: resolveGoType returns a type string for every Type tree, and it     *)
(* returns any for a union with two or more members that are not null, for  *)
(* an and, for a tuple, for a base type of an unknown name, for an unknown  *)
(* kind, for a missing type and for a literal without a body.               *)

KnownBaseNames ==
    {"string", "RegExp", "DocumentUri", "URI", "integer", "uinteger", "decimal",
     "boolean", "null", "LSPAny", "LSPObject", "LSPArray"}

KnownKinds ==
    {"base", "reference", "array", "map", "or", "and", "tuple", "literal",
     "stringLiteral", "integerLiteral", "booleanLiteral"}

NonNullMembers(t) == Cardinality({i \in 1..Len(t.items) : ~IsNullType(t.items[i])})

ResolvesToAny(t) ==
    \/ t = NilType
    \/ t.kind \notin KnownKinds
    \/ t.kind \in {"and", "tuple"}
    \/ t.kind = "base" /\ t.name \notin KnownBaseNames
    \/ t.kind = "literal" /\ t.literal = NilLit
    \/ t.kind = "or" /\ NonNullMembers(t) >= 2

C20_ResolveTotal ==
    /\ rOut = "<none>" => ENABLED Resolve
    /\ rOut # "<none>" =>
           /\ Len(rOut) > 0
           /\ ResolvesToAny(rTyp) => rOut = "any"

\* A union of two structures, one of them nullable.
C20_Witness ==
    /\ rTyp = OrT(<<OrT(<<RefT("Position"), BaseT("null")>>), RefT("Range")>>)
    /\ rOut = "any"

----------------------------------------------------------------------------
(* C21: every method whose method string is a key of the override map is    *)
(* emitted under the override name, whatever other methods are in its set,  *)
(* also when another method of the set ends with the same name.             *)

C21_PinnedKeepOverride ==
    \A iface \in Ifaces : \A i \in 1..Len(iface) :
        Pinned(iface[i].method) => iface[i].goName = methodNameOverrides[iface[i].method]

\* The pinned textDocument/diagnostic next to the method diagnostic, whose
\* short and full names are both Diagnostic: the pin stays, the clash too.
C21_Witness ==
    /\ pc = "serverDone"
    /\ MethodPairs(server.iface)
          = << <<"diagnostic", "Diagnostic">>,
               <<"textDocument/diagnostic", "Diagnostic">> >>

----------------------------------------------------------------------------
(* C22: a client request forwarder with a result type, when the Call of the *)
(* connection gives an error, returns that error, with nil when the result  *)
(* type is a pointer and with the zero value of the result type otherwise;  *)
(* it never returns the decoded result together with an error.              *)

ForwardedLine == client.iface[frame.arm]

C22_ErrorReturnsNilOrZero ==
    (dpc = "returned" /\ frame.arm > 0 /\ ForwardedLine.resultType # ""
                      /\ frame.err # "<nil>") =>
        /\ Len(replies) = 1
        /\ replies[1].err = frame.err
        /\ replies[1].result = IF IsPointerType(ForwardedLine.resultType) THEN "nil" ELSE "zero"
        /\ replies[1].result \notin {"result", "&result"}

\* Call fails for the forwarder of a request returning []Hover.
C22_Witness ==
    /\ dpc = "returned" /\ frame.arm > 0
    /\ ForwardedLine.resultType = "[]Hover"
    /\ calls = <<[goName |-> "Call", withParams |-> TRUE,
                  args |-> <<"textDocument/hover", "params">>]>>
    /\ replies = <<[result |-> "zero", err |-> "call error"]>>

----------------------------------------------------------------------------
(* C23: the name of an emitted field is the override-table spelling when    *)
(* the whole LSP name is a key of the override table; otherwise it is the   *)
(* LSP name with its first letter in upper case, and with a leading Uri,    *)
(* Id, Json, Utf, Lsp, Url, Html or Css in upper case exactly when that     *)
(* prefix is followed by the end of the name or by an upper-case letter;    *)
(* the rest of the name is unchanged.                                       *)

Abbreviations == {"Uri", "Id", "Json", "Utf", "Lsp", "Url", "Html", "Css"}

RECURSIVE UpperString(_)
UpperString(s) == IF s = "" THEN "" ELSE ToUpper(CharAt(s, 1)) \o UpperString(SubSeq(s, 2, Len(s)))

\* The abbreviations that start c and are followed by the end or a capital.
LeadingAbbreviations(c) ==
    {a \in Abbreviations :
        /\ HasPrefix(c, a)
        /\ (Len(c) = Len(a) \/ IsUpper(CharAt(c, Len(a) + 1)))}

ClaimedFieldName(n) ==
    IF n = "" THEN ""
    ELSE IF n \in DOMAIN fieldNameOverrides THEN fieldNameOverrides[n]
    ELSE IF LeadingAbbreviations(UpperFirst(n)) = {} THEN UpperFirst(n)
    ELSE LET a == CHOOSE x \in LeadingAbbreviations(UpperFirst(n)) : TRUE
         IN  UpperString(a) \o SubSeq(UpperFirst(n), Len(a) + 1, Len(n))

C23_FieldNames ==
    \A k \in 1..Len(types) :
        types[k].decl = "struct" =>
            \A j \in 1..Len(types[k].fields) :
                types[k].fields[j].name = ClaimedFieldName(types[k].fields[j].tag.json)

\* idToken starts with Id and a capital follows.
C23_Witness ==
    /\ pc = "typesDone"
    /\ \E k \in 1..Len(types) :
           /\ types[k].decl = "struct" /\ types[k].name = "Location"
           /\ Len(types[k].fields) = 1
           /\ types[k].fields[1].tag.json = "idToken"
           /\ types[k].fields[1].name = "IDToken"

----------------------------------------------------------------------------
(* C24: which un-pinned methods the collision pass of disambiguateMethods   *)
(* renames to their full name.  Only methods whose full name differs from   *)
(* their short name show whether they were renamed.                         *)

Unpinned(iface) == {i \in 1..Len(iface) : ~Pinned(iface[i].method)}

ShowsRename(m) == GoMethodNameFull(m.method) # GoMethodName(m.method)

HasFullName(m) == m.goName = GoMethodNameFull(m.method)

\* C24 as stated: the short names are counted among the un-pinned methods
\* only, so an un-pinned method is renamed exactly when another un-pinned
\* method of its set has the same short name.
C24_CountedAmongUnpinned ==
    \A iface \in Ifaces : \A i \in Unpinned(iface) :
        ShowsRename(iface[i]) =>
            (HasFullName(iface[i])
                <=> \E j \in Unpinned(iface) \ {i} :
                        GoMethodName(iface[j].method) = GoMethodName(iface[i].method))

\* C24 amended: the names are counted among all methods of the set, a pinned
\* method under its override name, so an un-pinned method is renamed exactly
\* when another method of its set, pinned or not, has the name it has.
C24_CountedAmongAll ==
    \A iface \in Ifaces : \A i \in Unpinned(iface) :
        ShowsRename(iface[i]) =>
            (HasFullName(iface[i])
                <=> \E j \in (1..Len(iface)) \ {i} :
                        NameAfterOverrides(iface[j].method) = GoMethodName(iface[i].method))

\* workspace/diagnostic is the only un-pinned method and is renamed, because
\* the pinned textDocument/diagnostic is counted under Diagnostic.
C24_Witness ==
    /\ pc = "serverDone"
    /\ MethodPairs(server.iface)
          = << <<"textDocument/diagnostic", "Diagnostic">>,
               <<"workspace/diagnostic", "WorkspaceDiagnostic">> >>

----------------------------------------------------------------------------
(* C25: the cycle guard is per query.  The field list emitted for a         *)
(* structure is the one emitted for it when the structures of the model are *)
(* collected in the opposite order, and a structure that two other          *)
(* structures name as a base or mixin gives its properties to both (those   *)
(* whose name no proposed property of the model has).                       *)

ReversedRun ==
    generateTypes(NewGenerator([g.Model EXCEPT !.structures = Reverse(@)]), "forward").buf

FieldsIn(buf, name) ==
    SelectSeq(buf, LAMBDA d : d.decl = "struct" /\ d.name = name)

DirectBases(s) ==
    {s.extends[i].name : i \in {i \in 1..Len(s.extends) : s.extends[i].kind = "reference"}}
        \cup {s.mixins[i].name : i \in {i \in 1..Len(s.mixins) : s.mixins[i].kind = "reference"}}

TagNames(fields) == {fields[i].tag.json : i \in 1..Len(fields)}

\* The names that some property flagged proposed has: such a property is
\* collected, can stand for a later one of its name, and is not emitted.
ProposedPropertyNames ==
    UNION {{g.Model.structures[i].properties[k].name :
                k \in {k \in 1..Len(g.Model.structures[i].properties) :
                          g.Model.structures[i].properties[k].proposed}} :
           i \in 1..Len(g.Model.structures)}

C25_GuardPerQuery ==
    pc = "typesDone" =>
        \A i \in 1..Len(g.Model.structures) :
            LET s == g.Model.structures[i]
            IN  /\ FieldsIn(types, s.name) = FieldsIn(ReversedRun, s.name)
                /\ \A j \in 1..Len(g.Model.structures) :
                       LET b == g.Model.structures[j]
                       IN  (i # j /\ b.name \in DirectBases(s)) =>
                               \A k \in 1..Len(b.properties) :
                                   b.properties[k].name \notin ProposedPropertyNames =>
                                       b.properties[k].name
                                           \in TagNames(FieldsIn(types, s.name)[1].fields)

\* B and C both mix in A and both get its property a.
C25_Witness ==
    /\ pc = "typesDone"
    /\ Len(g.Model.structures) = 3
    /\ RefT("A") \in Range(g.Model.structures[2].mixins)
    /\ RefT("A") \in Range(g.Model.structures[3].mixins)
    /\ "a" \in TagNames(FieldsIn(types, "B")[1].fields)
    /\ "a" \in TagNames(FieldsIn(types, "C")[1].fields)

----------------------------------------------------------------------------
(* C26: decoding a Type reads the field value by kind: for map it becomes   *)
(* the value type of the map, for literal the literal body, for             *)
(* stringLiteral, integerLiteral and booleanLiteral the constant; for every *)
(* other kind, unknown kinds included, a value is ignored and decoding      *)
(* succeeds; a value that does not decode to what its kind requires fails   *)
(* the load.                                                                *)

LoadedDoc == msg.params

\* The documents made of one kind and one value.
IsKindValueDoc ==
    \E kind \in DocKinds, value \in ValueDocs : LoadedDoc = TypeDoc(kind, value)

DocKind == LoadedDoc.fields["kind"].s

DocValue == Field(LoadedDoc, "value")

\* What encoding/json accepts for the variable the kind decodes into: null
\* for every variable, an object for a struct (keys it does not know are
\* skipped, the ones it knows must fit), a string, a whole number, a boolean.
ValueFits(kind, value) ==
    CASE kind = "map" -> value \in {JNull, StringTypeDoc, BodyDoc, BrokenBodyDoc}
      [] kind = "literal" -> value \in {JNull, StringTypeDoc, BodyDoc, BrokenMapDoc}
      [] kind = "stringLiteral" -> value \in {JNull, JStr("x")}
      [] kind = "integerLiteral" -> value \in {JNull, JInt(7)}
      [] kind = "booleanLiteral" -> value \in {JNull, JBool(TRUE)}
      [] OTHER -> TRUE

ValueKinds == {"map", "literal", "stringLiteral", "integerLiteral", "booleanLiteral"}

NothingFromValue ==
    /\ rTyp.mapValue = NilType /\ rTyp.literal = NilLit
    /\ rTyp.stringValue = "" /\ rTyp.intValue = 0 /\ rTyp.boolValue = FALSE

C26_ValueByKind ==
    (pc # "start" /\ IsKindValueDoc) =>
        /\ (pc = "loadFailed") <=> (DocValue # JAbsent /\ ~ValueFits(DocKind, DocValue))
        /\ pc # "loadFailed" =>
              /\ rTyp.kind = DocKind
              /\ (DocKind \notin ValueKinds \/ DocValue = JAbsent) => NothingFromValue
              /\ (DocKind = "map" /\ DocValue = StringTypeDoc) =>
                     rTyp.mapValue = [ZeroType EXCEPT !.kind = "base", !.name = "string"]
              /\ (DocKind = "literal" /\ DocValue = BodyDoc) =>
                     /\ ~rTyp.literal.isNil
                     /\ rTyp.literal.properties
                          = <<Prop("range", [ZeroType EXCEPT !.kind = "base", !.name = "string"],
                                   TRUE, FALSE)>>
              /\ (DocKind = "stringLiteral" /\ DocValue = JStr("x")) => rTyp.stringValue = "x"
              /\ (DocKind = "integerLiteral" /\ DocValue = JInt(7)) => rTyp.intValue = 7
              /\ (DocKind = "booleanLiteral" /\ DocValue = JBool(TRUE)) => rTyp.boolValue = TRUE
        /\ (pc = "resolved" /\ DocKind = "mystery") => rOut = "any"
        /\ (pc = "resolved" /\ DocKind = "map" /\ DocValue = StringTypeDoc) =>
              rOut = "map[string]string"

\* An integerLiteral whose value is 1.5 fails the load.
C26_Witness ==
    /\ pc = "loadFailed"
    /\ LoadedDoc = TypeDoc("integerLiteral", JFrac(1))
    /\ frame.decodeErr = "json: cannot unmarshal number into Go value of type int64"

----------------------------------------------------------------------------
(* C27: the constant block of the server output holds each constant name at *)
(* most once: the constants of the server method set in that set's order,   *)
(* then those of the client method set, a method whose constant name was    *)
(* written before writing nothing, so the first value of a name stays.      *)

\* The method strings in the order the two loops meet them.
ConstCandidates ==
    [i \in 1..Len(server.iface) |-> server.iface[i].method]
        \o [i \in 1..Len(client.iface) |-> client.iface[i].method]

\* The candidates that no earlier candidate shares the constant name with.
FirstOfName(seq) ==
    LET keep == {i \in 1..Len(seq) :
                    \A j \in 1..(i - 1) : methodConstName(seq[j]) # methodConstName(seq[i])}
        F[i \in 0..Len(seq)] ==
            IF i = 0 THEN <<>>
            ELSE IF i \in keep THEN Append(F[i - 1], seq[i]) ELSE F[i - 1]
    IN  F[Len(seq)]

C27_ConstantsOnceFirstWins ==
    /\ \A i, j \in 1..Len(server.consts) :
           i # j => server.consts[i].name # server.consts[j].name
    /\ pc = "done" =>
           server.consts = [i \in 1..Len(FirstOfName(ConstCandidates)) |->
                               [name |-> methodConstName(FirstOfName(ConstCandidates)[i]),
                                value |-> FirstOfName(ConstCandidates)[i]]]

\* $/progress and progress, both of direction both, share MethodProgress:
\* four candidates, one constant, with the first value.
C27_Witness ==
    /\ pc = "done"
    /\ ConstCandidates = <<"$/progress", "progress", "$/progress", "progress">>
    /\ server.consts = <<[name |-> "MethodProgress", value |-> "$/progress"]>>

----------------------------------------------------------------------------
(* C28: no step of a sequence of Generate calls changes the Model or one of *)
(* the five name indices of the Generator; the literal counter never        *)
(* decreases, and an entry of the promoted-literal map is never removed or  *)
(* given another literal.                                                   *)

C28_OnlyLiteralStateChanges ==
    [][/\ g'.Model = g.Model
       /\ g'.structs = g.structs /\ g'.enums = g.enums /\ g'.aliases = g.aliases
       /\ g'.requests = g.requests /\ g'.notifs = g.notifs
       /\ g'.literalCounter >= g.literalCounter
       /\ \A n \in DOMAIN g.namedLiterals :
              n \in DOMAIN g'.namedLiterals /\ g'.namedLiterals[n] = g.namedLiterals[n]]_vars

\* After two Generate calls that promoted literals, the Generator is the one
\* built from the Model but for its counter and its literal map.
C28_Witness ==
    /\ pc = "done" /\ runs = 2
    /\ g.literalCounter >= 4
    /\ Cardinality(DOMAIN g.namedLiterals) = g.literalCounter
    /\ g = [NewGenerator(g.Model) EXCEPT !.literalCounter = g.literalCounter,
                                         !.namedLiterals = g.namedLiterals]

----------------------------------------------------------------------------
(* C29: no field emitted for a structure that is not proposed comes from a  *)
(* property declared in a proposed structure: every emitted field of such a *)
(* structure has the name of a property that some structure of the model    *)
(* that is not proposed declares.                                           *)

DeclaredOutsideProposed ==
    UNION {{g.Model.structures[j].properties[k].name :
                k \in 1..Len(g.Model.structures[j].properties)} :
           j \in {j \in 1..Len(g.Model.structures) : ~g.Model.structures[j].proposed}}

C29_NoFieldFromProposedStructure ==
    \A i \in 1..Len(g.Model.structures) :
        ~g.Model.structures[i].proposed =>
            \A k \in 1..Len(Decls("struct", g.Model.structures[i].name)) :
                FieldNames(Decls("struct", g.Model.structures[i].name)[k])
                    \subseteq DeclaredOutsideProposed

----------------------------------------------------------------------------
(* C30: the signature of every method begins with the final Go name of the  *)
(* method and an opening parenthesis, so the name the interface declares,   *)
(* the name the dispatch case calls on the server and the name of the       *)
(* client forwarder are the same, for a method renamed by an override and   *)
(* for one renamed after a collision.                                       *)

\* The name a signature declares: what stands before its first parenthesis.
DeclaredName(signature) == SubSeq(signature, 1, IndexIn(signature, "(", 1) - 1)

C30_OneNamePerMethod ==
    /\ \A iface \in Ifaces : \A i \in 1..Len(iface) :
           /\ HasPrefix(iface[i].signature, iface[i].goName \o "(")
           /\ DeclaredName(iface[i].signature) = iface[i].goName
    /\ Len(server.cases) = Len(server.iface)
    /\ \A i \in 1..Len(server.cases) :
           /\ server.cases[i].method = server.iface[i].method
           /\ server.cases[i].goName = DeclaredName(server.iface[i].signature)
    /\ Len(client.forwarders) = Len(client.iface)
    /\ \A i \in 1..Len(client.forwarders) :
           /\ client.forwarders[i].method = client.iface[i].method
           /\ DeclaredName(client.forwarders[i].signature) = client.iface[i].goName
           /\ client.forwarders[i].signature = client.iface[i].signature

\* One method named by an override, two renamed after their collision.
C30_Witness ==
    /\ pc = "done"
    /\ [i \in 1..Len(server.cases) |-> server.cases[i].goName]
          = <<"CompletionResolve", "WorkspaceCodeLensRefresh", "WorkspaceInlayHintRefresh">>
    /\ [i \in 1..Len(client.forwarders) |-> client.forwarders[i].signature]
          = <<"CompletionResolve(ctx context.Context) error",
              "WorkspaceCodeLensRefresh(ctx context.Context) error",
              "WorkspaceInlayHintRefresh(ctx context.Context) error">>

====
